---- MODULE Spec2Model ----
(***************************************************************************)
(* Model of the incremental document pipeline of Src/main.py:              *)
(* generate_ai_documents (cache check, bounded fan-out with retry/backoff, *)
(* output writing, cache index), the OCR fan-outs of                       *)
(* write_combined_photo_txt and extract_text_from_pdf, and the run logic   *)
(* of main() (snapshot diff, no-op check, cleanup, extraction, prompt      *)
(* documents, generation, snapshot save).                                  *)
(*                                                                         *)
(* Texts are modelled structurally.  A file is <<>> when it does not exist *)
(* and <<content>> when it does.  A prompt document is <<prompt, merged>>  *)
(* (f"{prompt}\n{content}"); merged text is a sequence of sections         *)
(* <<title, body>>.                                                        *)
(***************************************************************************)
EXTENDS Integers, Sequences, FiniteSets, TLC

\* ---------------------------------------------------------------- bounds
NumAiDocs == 2          \* entries of ai_docs (7 in main.py, scaled down)
MaxRetries == 2         \* largest DOUBAO_RETRY_TIMES explored
MaxWorkers == 2         \* largest worker count explored
MaxPhotos == 3          \* most images given to write_combined_photo_txt
MaxPages == 4           \* most pages of a PDF given to extract_text_from_pdf
MaxRuns == 3            \* runs of main() in one behaviour
MaxEdits == 2           \* changes of inputs or configuration between runs
NumVersions == 2        \* contents an input file or a prompt can take
NumModels == 2          \* values of DOUBAO_MODEL
MaxFaults == 1          \* remote calls that may fail in a behaviour of Spec
MaxUnitFaults == 6      \* remote calls that may fail in a single invocation
MaxHeaders == 3         \* most entries of a header map given to sign_request
MaxNames == 3           \* most files of one loop over unique_name
MaxRaw == 3             \* largest number an environment value spells

\* ------------------------------------------------------- program constants
DefaultBackoff == 15    \* backoff = 1.5 seconds, in tenths of a second
DefaultRetries == 2     \* retries without DOUBAO_RETRY_TIMES
DefaultWorkers == 2     \* workers without DOUBAO_MAX_WORKERS
MinBackoff == 1         \* max(0.1, ...), in tenths of a second

\* --------------------------------------------------------------- documents
\* prompt_docs of main(): document 0 has a prompt document only, the others
\* are also the inputs of ai_docs.
AiDocIds == 1..NumAiDocs
PromptDocIds == {0} \cup AiDocIds

\* ai_docs in list order
ai_docs == [i \in 1..NumAiDocs |-> i]

OutputKinds == {"docx", "doc", "md"}

\* input files: a.pdf has a text layer, b.pdf is scanned
PdfNames == {"a.pdf", "b.pdf"}
WordNames == {"c.docx"}
PhotoNameSeq == <<"p1.png", "p2.png", "p3.png", "p4.png", "p5.png">>
PhotoNames == {PhotoNameSeq[i] : i \in 1..Len(PhotoNameSeq)}
\* the input files of the runs of main()
MainPhotoNames == {"p1.png"}
MainFileNames == PdfNames \cup WordNames \cup MainPhotoNames

\* ------------------------------------------------------------------- files
NoFile == <<>>
File(content) == <<content>>
Exists(f) == f # NoFile
Content(f) == f[1]

\* a persisted JSON document that does not hold a JSON object: the file cannot
\* be read (OSError), is not valid JSON, is not valid UTF-8, or holds a JSON
\* value that is not an object
CorruptKinds == {"unreadable", "bad_json", "bad_utf8", "not_object"}
Corrupt(kind) == <<"corrupt", kind>>
IsCorrupt(f) == Len(f) = 2

\* reading a persisted document with read_text(encoding="utf-8") and
\* json.loads under `except (json.JSONDecodeError, OSError)`:
\*   "object"  a dict is returned
\*   "empty"   {} is returned (file missing, OSError, JSONDecodeError)
\*   "raise"   UnicodeDecodeError is not caught and propagates
\*   "value"   a value that is not a dict is returned
LoadOutcome(f) ==
    IF ~Exists(f) THEN "empty"
    ELSE IF ~IsCorrupt(f) THEN "object"
    ELSE IF f[2] \in {"unreadable", "bad_json"} THEN "empty"
    ELSE IF f[2] = "bad_utf8" THEN "raise"
    ELSE "value"

\* content.strip() of a prompt document is empty
EmptyText == <<0, <<>>>>

\* a merged text with one section, used where only its identity matters
SampleMerged(n) == << <<"a.pdf", <<n>>>> >>

\* ------------------------------------------------------------------ hashes
RECURSIVE Pow2(_)
Pow2(n) == IF n = 0 THEN 1 ELSE 2 * Pow2(n - 1)

\* a digest that is the same for every text
hash_collide(text) == <<"sha256", EmptyText>>

\* hash_text: SHA-256 is modelled as an injective tagging of the text
hash_text(text) == <<"sha256", text>>

NoHash == <<"sha256">>

\* model_signature: hash of f"{model}|{reasoning_effort}"
model_signature(settings) == <<"sig", settings.model, settings.reasoning_effort>>

\* cache_key = f"{source_path}|{signature}"
CacheKey(d, signature) == <<d, signature>>

\* cached = index.get(cache_key, {}); cached.get("hash")
CachedHash(idx, key) == IF key \in DOMAIN idx THEN idx[key].hash ELSE NoHash

\* chat_completion(build_messages(text)): the completion for a text
chat_completion(text) == <<"resp", text>>

Unbound == <<"unbound">>

\* ----------------------------------------------------------------- state
VARIABLES
    \* environment
    apiKey,        \* ARK_API_KEY is set
    envModel,      \* DOUBAO_MODEL: 0 when unset
    envEffort,     \* DOUBAO_REASONING_EFFORT or "medium"
    retries,       \* resolve_doubao_retry_settings()[0]
    backoff,       \* resolve_doubao_retry_settings()[1], tenths of a second
    workers,       \* resolve_doubao_workers()
    renderer,      \* python-docx importable (word_writer.Document is not None)
    textutil,      \* shutil.which("textutil") finds the converter
    decl,          \* declared outputs of each entry of ai_docs
    now,           \* wall clock used for updated_at
    ocrConfig,     \* resolve_visual_ocr_config() is not None
    ocrWorkers,    \* resolve_ocr_workers()
    inputs,        \* input directories: content version of each file, 0 = absent
    prompts,       \* PROMPT_* values: 0 = unset
    \* file system
    promptDoc,     \* prompt documents, the inputs of ai_docs
    aiOut,         \* AI outputs: aiOut[d][kind]
    tmpDocx,       \* documents whose _tmp_*.docx exists
    indexFile,     \* ai_outputs.json: NoFile or File(index)
    pageDir,       \* page_<i>.txt of each PDF's folder, as a sequence
    photoTxt,      \* OUTPUT_PHOTO_TXT
    photoTexts,    \* photo_texts/<stem>.txt of each photo
    pdfTxt,        \* OUTPUT_PDF_TXT
    wordTxt,       \* OUTPUT_WORD_TXT
    merged,        \* OUTPUT_MERGED_TXT
    snapshotFile,  \* input_snapshot.json
    \* generate_ai_documents
    pc,
    index,         \* in-memory index
    tasks,         \* sequence of task records
    fut,           \* state of the future of each document
    attempt,       \* call_doubao's attempt counter
    collected,     \* futures already yielded by as_completed
    results,       \* successes in completion order
    response,      \* the local variable response
    wi,            \* position of the output-writing loop
    \* OCR fan-outs
    photo_files,   \* argument of write_combined_photo_txt
    cur_pdf,       \* argument of extract_text_from_pdf
    ocrFut,        \* state of the future of each image or page
    ocrResults,    \* the list results
    ocrCollected,  \* futures already yielded by as_completed
    \* main
    flags,         \* inputs_changed, prompts_changed, ... of this run
    pdf_files,     \* list_pdf_files(INPUT_DIR)
    word_files,    \* list_word_files(WORD_INPUT_DIR)
    pdf_i,         \* position of the loop of write_combined_pdf_txt
    \* observation
    runs,          \* completed runs of main()
    nEdits,        \* changes made so far
    edits,         \* kinds of the changes made since the previous run
    editedDocs,    \* prompts changed since the previous run
    lastFailed,    \* documents whose generation unit failed in the previous run
    fs0,           \* the files as they were when this run started
    calls,         \* chat_completion invocations per document
    sleeps,        \* time.sleep arguments per document
    reported,      \* failure reports per document
    ocrCalls,      \* OCR requests issued
    faultsLeft,    \* remote calls that may still fail or come back empty
    \* sign_request
    request,       \* arguments of the call: headers, query, session_token, clock
    signed,        \* what the call leaves: headers, canonical request, signature
    \* resolve_doubao_workers, resolve_doubao_retry_settings, resolve_ocr_workers
    rawEnv,        \* the environment values the calls read, and os.cpu_count()
    \* iter_page_texts
    pageTexts,     \* the texts the call yielded
    \* unique_name over one loop of resolve_output_folder or
    \* resolve_output_text_file
    naming         \* the stems, used_names, the locals of the call, the names returned

envVars == <<apiKey, envModel, envEffort, retries, backoff, workers, renderer,
             textutil, decl, now, ocrConfig, ocrWorkers, inputs, prompts>>
genFsVars == <<promptDoc, aiOut, tmpDocx, indexFile>>
ocrFsVars == <<pageDir, photoTxt, photoTexts>>
mainFsVars == <<pdfTxt, wordTxt, merged, snapshotFile>>
genLocals == <<index, tasks, fut, attempt, collected, results, response, wi>>
ocrLocals == <<photo_files, cur_pdf, ocrFut, ocrResults, ocrCollected>>
mainLocals == <<flags, pdf_files, word_files, pdf_i>>
genObs == <<calls, sleeps, reported>>
runObs == <<runs, nEdits, edits, editedDocs, lastFailed, fs0>>
\* what an action of generate_ai_documents or of an OCR fan-out never touches
fsVars == <<genFsVars, ocrFsVars, mainFsVars, mainLocals>>
obsVars == <<genObs, ocrCalls, runObs, faultsLeft>>
callVars == <<request, signed, rawEnv, pageTexts, naming>>
vars == <<envVars, fsVars, pc, genLocals, ocrLocals, obsVars, callVars>>

\* ------------------------------------------------------------- settings
\* get_doubao_settings(); None (here: model 0) when DOUBAO_MODEL is missing
ai_settings == [model |-> envModel, reasoning_effort |-> envEffort]

\* settings that are there whatever the environment holds
SettingsAlways == TRUE

HasSettings == envModel # 0

\* An environment value is unset, blank (empty or white space), a text that
\* int() and float() reject, or the decimal spelling of the integer n.
RawValue(kind, n) == [kind |-> kind, n |-> n]

\* get_env_value: None for an unset or blank value
get_env_value(raw) == IF raw.kind \in {"unset", "blank"} THEN <<>> ELSE <<raw>>

\* int(raw_value) or float(raw_value) returns, does not raise ValueError
Parses(raw) == raw.kind = "num"

Larger(a, b) == IF a >= b THEN a ELSE b
Smaller(a, b) == IF a <= b THEN a ELSE b

\* a worker count taken from the environment as it is spelled
resolve_workers_unchecked(raw) ==
    IF get_env_value(raw) # <<>> /\ Parses(raw) THEN raw.n ELSE DefaultWorkers

\* main.py lines 218-227
resolve_doubao_workers(raw) ==
    IF get_env_value(raw) # <<>> /\ Parses(raw) /\ raw.n > 0 THEN raw.n
    ELSE DefaultWorkers

\* main.py lines 230-245: retries and backoff (in tenths of a second)
resolve_doubao_retry_settings(retries_raw, backoff_raw) ==
    <<IF get_env_value(retries_raw) # <<>> /\ Parses(retries_raw)
      THEN Larger(0, retries_raw.n) ELSE DefaultRetries,
      IF get_env_value(backoff_raw) # <<>> /\ Parses(backoff_raw)
      THEN Larger(MinBackoff, backoff_raw.n) ELSE DefaultBackoff>>

\* ocr_client.py lines 59-69; cpu_count 0 stands for os.cpu_count() = None
resolve_ocr_workers(raw, cpu_count) ==
    IF get_env_value(raw) # <<>> /\ Parses(raw) /\ raw.n > 0 THEN raw.n
    ELSE Larger(2, Smaller(4, IF cpu_count = 0 THEN 4 ELSE cpu_count))

\* the three resolutions, as generate_ai_documents (lines 459-460) and the OCR
\* fan-outs make them before they build their pools
ResolveSettings ==
    /\ pc = "resolve"
    /\ workers' = resolve_doubao_workers(rawEnv.workers)
    /\ retries' = resolve_doubao_retry_settings(rawEnv.retries, rawEnv.backoff)[1]
    /\ backoff' = resolve_doubao_retry_settings(rawEnv.retries, rawEnv.backoff)[2]
    /\ ocrWorkers' = resolve_ocr_workers(rawEnv.ocr_workers, rawEnv.cpu_count)
    /\ pc' = "resolve_ret"
    /\ UNCHANGED <<apiKey, envModel, envEffort, renderer, textutil, decl, now, ocrConfig,
                   inputs, prompts>>
    /\ UNCHANGED <<callVars, fsVars, genLocals, ocrLocals, obsVars>>

\* --------------------------------------------------- generate_ai_documents
\* declared output paths of a document, as files
OutputMissing(d) == \E k \in decl[d] : ~Exists(aiOut[d][k])

\* a cache check that forgets the outputs on disk
ShouldSkipHashOnly(output_missing, cached_hash, content_hash) ==
    cached_hash = content_hash

\* line 488: the document is skipped (cache hit)
ShouldSkip(output_missing, cached_hash, content_hash) ==
    ~output_missing /\ cached_hash = content_hash

\* a scan that does not look at the content of the source
ScheduledWithoutContent(idx, d) ==
    /\ Exists(promptDoc[d])
    /\ decl[d] # {}
    /\ ~ShouldSkip(OutputMissing(d),
                   CachedHash(idx, CacheKey(d, model_signature(ai_settings))),
                   hash_text(Content(promptDoc[d])))

\* lines 464-495: does the scan append a task for document d
Scheduled(idx, d) ==
    /\ Exists(promptDoc[d])
    /\ Content(promptDoc[d]) # EmptyText
    /\ decl[d] # {}
    /\ ~ShouldSkip(OutputMissing(d),
                   CachedHash(idx, CacheKey(d, model_signature(ai_settings))),
                   hash_text(Content(promptDoc[d])))

\* a task keyed by its source alone, whatever the model configuration
TaskKeyedBySource(d) == [doc |-> d,
                         content |-> Content(promptDoc[d]),
                         hash |-> hash_text(Content(promptDoc[d])),
                         cache_key |-> CacheKey(d, <<"sig", 0, "">>)]

\* lines 484-495: the task record
Task(d) == [doc |-> d,
            content |-> Content(promptDoc[d]),
            hash |-> hash_text(Content(promptDoc[d])),
            cache_key |-> CacheKey(d, model_signature(ai_settings))]

RECURSIVE ScanTasks(_, _)
ScanTasks(idx, i) ==
    IF i > Len(ai_docs) THEN <<>>
    ELSE (IF Scheduled(idx, ai_docs[i]) THEN <<Task(ai_docs[i])>> ELSE <<>>)
         \o ScanTasks(idx, i + 1)

\* load_ai_output_index
load_ai_output_index ==
    IF LoadOutcome(indexFile) = "object" THEN Content(indexFile) ELSE <<>>

\* the scan does not survive the index document: the load raises, or the
\* value loaded is not a dict and index.get is reached (line 486)
GenScanRaises ==
    \/ LoadOutcome(indexFile) = "raise"
    \/ /\ LoadOutcome(indexFile) = "value"
       /\ \E d \in AiDocIds :
             /\ Exists(promptDoc[d])
             /\ Content(promptDoc[d]) # EmptyText
             /\ decl[d] # {}

TaskDocs == {tasks[i].doc : i \in 1..Len(tasks)}
TaskOf(d) == tasks[CHOOSE i \in 1..Len(tasks) : tasks[i].doc = d]

\* lines 447-455: generation skipped for a missing key or model
GenSkipConfig ==
    /\ pc = "gen"
    /\ ~apiKey \/ ~HasSettings
    /\ pc' = "gen_ret"
    /\ UNCHANGED <<index, tasks, fut, attempt, collected, results, response, wi>>
    /\ UNCHANGED <<envVars, callVars, fsVars, ocrLocals, obsVars>>

\* lines 457-530: load the index, scan, submit every task
GenScan ==
    /\ pc = "gen"
    /\ apiKey /\ HasSettings
    /\ IF GenScanRaises
       THEN /\ pc' = "crashed"
            /\ UNCHANGED <<index, tasks, fut>>
       ELSE LET idx == load_ai_output_index
                ts == ScanTasks(idx, 1)
            IN /\ index' = idx
               /\ tasks' = ts
               /\ fut' = [d \in AiDocIds |->
                             IF \E i \in 1..Len(ts) : ts[i].doc = d
                             THEN "queued" ELSE "none"]
               /\ pc' = IF ts = <<>> THEN "gen_ret" ELSE "gen_pool"
    /\ UNCHANGED <<attempt, collected, results, response, wi>>
    /\ UNCHANGED <<envVars, callVars, fsVars, ocrLocals, obsVars>>

\* units executing call_doubao
Running == {d \in AiDocIds : fut[d] \in {"calling", "sleeping"}}

\* a pool as large as the number of submitted units
PoolSizeAll(w, n) == n

\* ThreadPoolExecutor(max_workers=workers): size of the pool
PoolSize(w, n) == w

\* a worker thread takes a queued unit and enters call_doubao
GenStart(d) ==
    /\ pc = "gen_pool"
    /\ fut[d] = "queued"
    /\ Cardinality(Running) < PoolSize(workers, Len(tasks))
    /\ fut' = [fut EXCEPT ![d] = "calling"]
    /\ calls' = [calls EXCEPT ![d] = @ + 1]
    /\ UNCHANGED <<pc, index, tasks, attempt, collected, results, response, wi>>
    /\ UNCHANGED <<envVars, callVars, fsVars, ocrLocals, sleeps, reported, ocrCalls, runObs,
                   faultsLeft>>

\* lines 507-513: chat_completion returns
GenCallReturn(d) ==
    /\ pc = "gen_pool"
    /\ fut[d] = "calling"
    /\ fut' = [fut EXCEPT ![d] = "ok"]
    /\ UNCHANGED <<pc, index, tasks, attempt, collected, results, response, wi>>
    /\ UNCHANGED <<envVars, callVars, fsVars, ocrLocals, obsVars>>

\* an off-by-one budget: one retry too many
RetriesExhaustedLate(att, r) == att > r

\* a loop that goes on retrying whatever the attempt number
RetriesNeverExhausted(att, r) == FALSE

\* line 515: the exception is re-raised
RetriesExhausted(att, r) == att >= r

\* line 517: argument of time.sleep
SleepTime(b, att) == b * Pow2(att)

\* lines 514-518: chat_completion raises
GenCallRaise(d) ==
    /\ pc = "gen_pool"
    /\ fut[d] = "calling"
    /\ faultsLeft > 0
    /\ faultsLeft' = faultsLeft - 1
    /\ IF RetriesExhausted(attempt[d], retries)
       THEN /\ fut' = [fut EXCEPT ![d] = "err"]
            /\ UNCHANGED <<attempt, sleeps>>
       ELSE /\ fut' = [fut EXCEPT ![d] = "sleeping"]
            /\ sleeps' = [sleeps EXCEPT ![d] = Append(@, SleepTime(backoff, attempt[d]))]
            /\ attempt' = [attempt EXCEPT ![d] = @ + 1]
    /\ UNCHANGED <<pc, index, tasks, collected, results, response, wi>>
    /\ UNCHANGED <<envVars, callVars, fsVars, ocrLocals, calls, reported, ocrCalls, runObs>>

\* the sleep ends and the loop calls chat_completion again
GenWake(d) ==
    /\ pc = "gen_pool"
    /\ fut[d] = "sleeping"
    /\ fut' = [fut EXCEPT ![d] = "calling"]
    /\ calls' = [calls EXCEPT ![d] = @ + 1]
    /\ UNCHANGED <<pc, index, tasks, attempt, collected, results, response, wi>>
    /\ UNCHANGED <<envVars, callVars, fsVars, ocrLocals, sleeps, reported, ocrCalls, runObs,
                   faultsLeft>>

\* a loop without the try/except around future.result()
OnFutureExceptionPropagate == "raise"

\* lines 538-541: what the as_completed loop does with a failed future
OnFutureException == "continue"

\* lines 531-552: as_completed yields a finished future
GenCollect(d) ==
    /\ pc = "gen_pool"
    /\ fut[d] \in {"ok", "err"}
    /\ d \notin collected
    /\ collected' = collected \cup {d}
    /\ IF fut[d] = "ok"
       THEN /\ response' = chat_completion(TaskOf(d).content)
            /\ results' = Append(results,
                   [doc |-> d, content |-> TaskOf(d).content,
                    hash |-> TaskOf(d).hash, cache_key |-> TaskOf(d).cache_key,
                    response |-> chat_completion(TaskOf(d).content)])
            /\ UNCHANGED reported
            /\ pc' = IF collected' = TaskDocs THEN "gen_write" ELSE "gen_pool"
       ELSE /\ reported' = [reported EXCEPT ![d] = @ + 1]
            /\ UNCHANGED <<response, results>>
            /\ pc' = IF OnFutureException = "continue"
                     THEN (IF collected' = TaskDocs THEN "gen_write" ELSE "gen_pool")
                     ELSE "raised"
    /\ wi' = 1
    /\ UNCHANGED <<index, tasks, fut, attempt>>
    /\ UNCHANGED <<envVars, callVars, fsVars, ocrLocals, calls, sleeps, ocrCalls, runObs,
                   faultsLeft>>

\* line 558 writes the variable response as it is when the line runs
MdText(current_response, result_response) == current_response

\* write_markdown_doc: returns without writing when python-docx is missing
write_markdown_doc(old, text) == IF renderer THEN File(text) ELSE old

\* lines 554-576: one iteration of the output-writing loop
GenWrite ==
    /\ pc = "gen_write"
    /\ wi <= Len(results)
    /\ LET result == results[wi]
           d == result.doc
           resp == result.response
           md == IF "md" \in decl[d]
                 THEN File(MdText(response, resp)) ELSE aiOut[d]["md"]
           docx == IF "docx" \in decl[d]
                   THEN write_markdown_doc(aiOut[d]["docx"], resp)
                   ELSE aiOut[d]["docx"]
           useTmp == "doc" \in decl[d] /\ "docx" \notin decl[d]
           tmpExists == IF useTmp THEN (renderer \/ d \in tmpDocx) ELSE d \in tmpDocx
           source == IF useTmp
                     THEN (IF renderer THEN File(resp)
                           ELSE IF d \in tmpDocx THEN File(resp) ELSE NoFile)
                     ELSE docx
       IN /\ response' = resp
          /\ \E converted \in BOOLEAN :
                /\ converted => ("doc" \in decl[d] /\ textutil /\ Exists(source))
                /\ aiOut' = [aiOut EXCEPT ![d] =
                       [md |-> md, docx |-> docx,
                        doc |-> IF converted THEN source ELSE aiOut[d]["doc"]]]
                /\ tmpDocx' = IF useTmp
                              THEN (IF converted THEN tmpDocx \ {d}
                                    ELSE IF tmpExists THEN tmpDocx \cup {d}
                                    ELSE tmpDocx)
                              ELSE tmpDocx
          /\ index' = [k \in DOMAIN index \cup {result.cache_key} |->
                          IF k = result.cache_key
                          THEN [hash |-> result.hash, updated_at |-> now]
                          ELSE index[k]]
    /\ wi' = wi + 1
    /\ UNCHANGED <<pc, tasks, fut, attempt, collected, results>>
    /\ UNCHANGED <<envVars, callVars, promptDoc, indexFile, ocrFsVars, mainFsVars, mainLocals,
                   ocrLocals, obsVars>>

\* line 578: save_ai_output_index(index)
GenSave ==
    /\ pc = "gen_write"
    /\ wi > Len(results)
    /\ indexFile' = File(index)
    /\ pc' = "gen_ret"
    /\ UNCHANGED <<index, tasks, fut, attempt, collected, results, response, wi>>
    /\ UNCHANGED <<envVars, callVars, promptDoc, aiOut, tmpDocx, ocrFsVars, mainFsVars, mainLocals,
                   ocrLocals, obsVars>>

GenNext ==
    \/ GenSkipConfig
    \/ GenScan
    \/ \E d \in AiDocIds : GenStart(d)
    \/ \E d \in AiDocIds : GenCallReturn(d)
    \/ \E d \in AiDocIds : GenCallRaise(d)
    \/ \E d \in AiDocIds : GenWake(d)
    \/ \E d \in AiDocIds : GenCollect(d)
    \/ GenWrite
    \/ GenSave

\* ------------------------------------------------------------ OCR fan-outs
\* One OCR unit is a call of ocr_image_path_to_text (an image file) or of
\* ocr_image_bytes_to_text (a rendered page).  The text in an image is a
\* positive number; 0 is the empty string.
OcrRunning == {i \in 1..Len(ocrFut) : ocrFut[i] = "running"}
\* a future that counts as finished in whatever state it is
OcrDoneAlways(st) == TRUE

OcrDone(st) == st \in {"text", "empty", "raised"}

\* main.py line 372: ThreadPoolExecutor(max_workers=workers)
PhotoPoolSize(w, n) == w

\* pdf_reader.py line 126: ThreadPoolExecutor(max_workers=workers)
PagePoolSize(w, n) == w

\* main.py lines 359-364: nothing to do, or no OCR credentials
PhotoSkip ==
    /\ pc = "photo"
    /\ photo_files = <<>> \/ ~ocrConfig
    /\ pc' = "photo_ret"
    /\ UNCHANGED <<envVars, callVars, fsVars, genLocals, ocrLocals, obsVars>>

\* main.py lines 366-376: one future per image
PhotoSubmit ==
    /\ pc = "photo"
    /\ photo_files # <<>> /\ ocrConfig
    /\ ocrResults' = [i \in 1..Len(photo_files) |-> 0]
    /\ ocrFut' = [i \in 1..Len(photo_files) |-> "queued"]
    /\ ocrCollected' = {}
    /\ pc' = "photo_pool"
    /\ UNCHANGED <<envVars, callVars, fsVars, genLocals, photo_files, cur_pdf, obsVars>>

\* a worker thread takes a queued unit and issues the OCR request
OcrStart(i) ==
    /\ pc \in {"photo_pool", "pdf_pool"}
    /\ i \in 1..Len(ocrFut)
    /\ ocrFut[i] = "queued"
    /\ Cardinality(OcrRunning) <
          IF pc = "photo_pool" THEN PhotoPoolSize(ocrWorkers, Len(ocrFut))
          ELSE PagePoolSize(ocrWorkers, Len(ocrFut))
    /\ ocrFut' = [ocrFut EXCEPT ![i] = "running"]
    /\ ocrCalls' = ocrCalls + 1
    /\ UNCHANGED <<envVars, callVars, fsVars, pc, genLocals, photo_files, cur_pdf,
                   ocrResults, ocrCollected, genObs, runObs, faultsLeft>>

\* ocr_client.py lines 248-265: the unit returns the recognized text, returns
\* "" (request_visual_ocr printed an error and returned None), or raises
OcrFinish(i) ==
    /\ pc \in {"photo_pool", "pdf_pool"}
    /\ i \in 1..Len(ocrFut)
    /\ ocrFut[i] = "running"
    /\ \E outcome \in {"text", "empty", "raised"} :
          /\ outcome # "text" => faultsLeft > 0
          /\ ocrFut' = [ocrFut EXCEPT ![i] = outcome]
          /\ faultsLeft' = IF outcome = "text" THEN faultsLeft ELSE faultsLeft - 1
    /\ UNCHANGED <<envVars, callVars, fsVars, pc, genLocals, photo_files, cur_pdf,
                   ocrResults, ocrCollected, genObs, ocrCalls, runObs>>

\* the image text of unit i of the running fan-out
UnitImage(i) == IF pc = "photo_pool" THEN photo_files[i].text
                ELSE cur_pdf.pages[i].image

\* a collection that takes the text of the image whatever became of the unit
CollectedImage(st, image) == image

\* results[index] = future.result() or "", "" when it raised
CollectedText(st, image) == IF st = "text" THEN image ELSE 0

\* a result list filled in the order in which the units finish
SlotInCompletionOrder(i, done) == Cardinality(done) + 1

\* index = future_map[future]: the slot of a result is the position of its
\* unit in the submission, whatever has been collected before
ResultSlot(i, done) == i

\* main.py lines 377-383: as_completed yields a finished future
PhotoCollect(i) ==
    /\ pc = "photo_pool"
    /\ i \in 1..Len(ocrFut)
    /\ OcrDone(ocrFut[i])
    /\ i \notin ocrCollected
    /\ ocrResults' = [ocrResults EXCEPT ![ResultSlot(i, ocrCollected)] =
                                     CollectedText(ocrFut[i], UnitImage(i))]
    /\ ocrCollected' = ocrCollected \cup {i}
    /\ pc' = IF ocrCollected' = 1..Len(ocrFut) THEN "photo_write" ELSE "photo_pool"
    /\ UNCHANGED <<envVars, callVars, fsVars, genLocals, photo_files, cur_pdf, ocrFut, obsVars>>

\* a section of a combined text: title line and body lines
Section(name, body) == <<name, body>>
TextBody(text) == IF text = 0 THEN <<>> ELSE <<text>>

\* main.py lines 385-396: the combined photo text and the per-photo texts
PhotoWrite ==
    /\ pc = "photo_write"
    /\ photoTxt' = File([i \in 1..Len(photo_files) |->
                           Section(photo_files[i].name, TextBody(ocrResults[i]))])
    /\ photoTexts' = [n \in DOMAIN photoTexts |->
                        IF \E i \in 1..Len(photo_files) : photo_files[i].name = n
                        THEN File(ocrResults[CHOOSE i \in 1..Len(photo_files) :
                                                photo_files[i].name = n])
                        ELSE photoTexts[n]]
    /\ pc' = "photo_ret"
    /\ UNCHANGED <<envVars, callVars, genFsVars, pageDir, mainFsVars, mainLocals, genLocals,
                   ocrLocals, obsVars>>

\* a test that looks at every page of the document
TextOnAnyPage(pages) == \E i \in 1..Len(pages) : pages[i].text # 0

\* pdf_reader.py line 83: any of the first three pages has extractable text
is_text_pdf(pages) == \E i \in 1..Len(pages) : i <= 3 /\ pages[i].text # 0

\* pdf_reader.py lines 86-97: one page file per page, from pdfplumber
PdfText ==
    /\ pc = "pdf"
    /\ is_text_pdf(cur_pdf.pages)
    /\ pageDir' = [pageDir EXCEPT ![cur_pdf.name] =
                      File([i \in 1..Len(cur_pdf.pages) |-> cur_pdf.pages[i].text])]
    /\ pc' = "pdf_ret"
    /\ UNCHANGED <<envVars, callVars, genFsVars, photoTxt, photoTexts, mainFsVars, mainLocals,
                   genLocals, ocrLocals, obsVars>>

\* pdf_reader.py lines 110-115: scanned PDF without OCR credentials
PdfNoConfig ==
    /\ pc = "pdf"
    /\ ~is_text_pdf(cur_pdf.pages)
    /\ ~ocrConfig
    /\ pageDir' = [pageDir EXCEPT ![cur_pdf.name] =
                      File([i \in 1..Len(cur_pdf.pages) |-> 0])]
    /\ pc' = "pdf_ret"
    /\ UNCHANGED <<envVars, callVars, genFsVars, photoTxt, photoTexts, mainFsVars, mainLocals,
                   genLocals, ocrLocals, obsVars>>

\* pdf_reader.py lines 117-130: one future per page image
PdfSubmit ==
    /\ pc = "pdf"
    /\ ~is_text_pdf(cur_pdf.pages)
    /\ ocrConfig
    /\ ocrResults' = [i \in 1..Len(cur_pdf.pages) |-> 0]
    /\ ocrFut' = [i \in 1..Len(cur_pdf.pages) |-> "queued"]
    /\ ocrCollected' = {}
    /\ pc' = IF cur_pdf.pages = <<>> THEN "pdf_write" ELSE "pdf_pool"
    /\ UNCHANGED <<envVars, callVars, fsVars, genLocals, photo_files, cur_pdf, obsVars>>

\* pdf_reader.py lines 131-137: as_completed yields a finished future
PageCollect(i) ==
    /\ pc = "pdf_pool"
    /\ i \in 1..Len(ocrFut)
    /\ OcrDone(ocrFut[i])
    /\ i \notin ocrCollected
    /\ ocrResults' = [ocrResults EXCEPT ![ResultSlot(i, ocrCollected)] =
                                     CollectedText(ocrFut[i], UnitImage(i))]
    /\ ocrCollected' = ocrCollected \cup {i}
    /\ pc' = IF ocrCollected' = 1..Len(ocrFut) THEN "pdf_write" ELSE "pdf_pool"
    /\ UNCHANGED <<envVars, callVars, fsVars, genLocals, photo_files, cur_pdf, ocrFut, obsVars>>

\* pdf_reader.py lines 139-147: one page file per result
PdfWritePages ==
    /\ pc = "pdf_write"
    /\ pageDir' = [pageDir EXCEPT ![cur_pdf.name] = File(ocrResults)]
    /\ pc' = "pdf_ret"
    /\ UNCHANGED <<envVars, callVars, genFsVars, photoTxt, photoTexts, mainFsVars, mainLocals,
                   genLocals, ocrLocals, obsVars>>

OcrNext ==
    \/ PhotoSkip
    \/ PhotoSubmit
    \/ \E i \in 1..Len(ocrFut) : OcrStart(i)
    \/ \E i \in 1..Len(ocrFut) : OcrFinish(i)
    \/ \E i \in 1..Len(ocrFut) : PhotoCollect(i)
    \/ PhotoWrite
    \/ PdfText
    \/ PdfNoConfig
    \/ PdfSubmit
    \/ \E i \in 1..Len(ocrFut) : PageCollect(i)
    \/ PdfWritePages

\* ---------------------------------------------------------- request signing
\* A dict is the sequence of its <<key, value>> items in iteration order, with
\* distinct keys. A header value is the sequence of the pieces its text falls
\* into at the colons: "h:443" is <<"h", "443">>.
Items(d) == {d[i] : i \in 1..Len(d)}
Keys(d) == {d[i][1] : i \in 1..Len(d)}

\* d[key] = value: a key already there keeps its position
DictSet(d, key, value) ==
    IF key \in Keys(d)
    THEN [i \in 1..Len(d) |-> IF d[i][1] = key THEN <<key, value>> ELSE d[i]]
    ELSE Append(d, <<key, value>>)

DictGet(d, key) == (CHOOSE e \in Items(d) : e[1] = key)[2]

\* str.lower() on the header names in use
Lower(name) ==
    CASE name = "Host" -> "host"
      [] name = "Content-Type" -> "content-type"
      [] name = "Content-Md5" -> "content-md5"
      [] name = "Accept" -> "accept"
      [] name = "X-Date" -> "x-date"
      [] name = "X-Content-Sha256" -> "x-content-sha256"
      [] name = "X-Security-Token" -> "x-security-token"
      [] name = "X-Trace" -> "x-trace"
      [] name = "X-TRACE" -> "x-trace"

\* key.startswith("X-")
StartsWithX(name) ==
    name \in {"X-Date", "X-Content-Sha256", "X-Security-Token", "X-Trace", "X-TRACE"}

\* the order of str on the keys that get sorted
StrOrder(key) ==
    CASE key = "Action" -> 1
      [] key = "Version" -> 2
      [] key = "accept" -> 3
      [] key = "content-md5" -> 4
      [] key = "content-type" -> 5
      [] key = "host" -> 6
      [] key = "x-content-sha256" -> 7
      [] key = "x-date" -> 8
      [] key = "x-security-token" -> 9
      [] key = "x-trace" -> 10

UnsortedItems(d) == d

\* sorted(): the items by ascending key
SortedItems(d) ==
    [i \in 1..Len(d) |->
        CHOOSE e \in Items(d) :
            Cardinality({f \in Items(d) : StrOrder(f[1]) < StrOrder(e[1])}) = i - 1]

\* quote() leaves the letters and digits of these keys and values alone
canonical_query(query) == SortedItems(query)

IsSignedName(key) == key \in {"Content-Type", "Content-Md5", "Host"} \/ StartsWithX(key)

RECURSIVE select_signed(_, _)
select_signed(headers, acc) ==
    IF headers = <<>> THEN acc
    ELSE LET key == Head(headers)[1]
             value == Head(headers)[2]
         IN  select_signed(Tail(headers),
                 IF IsSignedName(key) THEN DictSet(acc, Lower(key), value) ELSE acc)

\* host, port = host_value.split(":", 1): the port is all that follows the
\* first colon
strip_default_port(signed_headers) ==
    IF "host" \notin Keys(signed_headers) THEN signed_headers
    ELSE LET host_value == DictGet(signed_headers, "host")
         IN  IF Len(host_value) > 1 /\ Tail(host_value) \in {<<"80">>, <<"443">>}
             THEN DictSet(signed_headers, "host", <<Head(host_value)>>)
             ELSE signed_headers

FormatDate(clock) == IF clock = 1 THEN <<"20260101T000000Z">> ELSE <<"20260102T000000Z">>
RequestBody == "image_base64=aGVsbG8"

\* a signed-header dict that is the caller's dict under another name
HeadersAliased(headers, signed_headers, authorization) ==
    DictSet(signed_headers, "Authorization", authorization)

\* the caller's dict when the call returns: signed_headers is a dict of its
\* own (line 147), so the assignments of lines 140, 143, 145 and 184 are all
\* that reaches it
headers_after(headers, signed_headers, authorization) ==
    DictSet(headers, "Authorization", authorization)

sign_request(req) ==
    LET format_date == FormatDate(req.clock)
        body_hash == hash_text(RequestBody)
        h1 == DictSet(req.headers, "X-Date", format_date)
        h2 == DictSet(h1, "X-Content-Sha256", body_hash)
        h3 == IF req.session_token # <<>>
              THEN DictSet(h2, "X-Security-Token", req.session_token) ELSE h2
        signed_headers == strip_default_port(select_signed(h3, <<>>))
        signed_header_lines == SortedItems(signed_headers)
        signed_headers_string == [i \in 1..Len(signed_header_lines) |->
                                     signed_header_lines[i][1]]
        canonical_request == <<"POST", "/", canonical_query(req.query),
                               signed_header_lines, signed_headers_string, body_hash>>
        credential_scope == <<format_date, "region", "service", "request">>
        signing_str == <<"HMAC-SHA256", format_date, credential_scope,
                         hash_text(canonical_request)>>
        signature == <<"hmac", credential_scope, signing_str>>
        authorization == <<"access_key", credential_scope, signed_headers_string,
                           signature>>
    IN  [headers |-> headers_after(h3, signed_headers, authorization),
         query |-> req.query,
         canonical_request |-> canonical_request,
         signed_headers_string |-> signed_headers_string,
         signature |-> signature,
         authorization |-> authorization]

SignRequest ==
    /\ pc = "sign"
    /\ signed' = sign_request(request)
    /\ pc' = "sign_ret"
    /\ UNCHANGED <<envVars, fsVars, genLocals, ocrLocals, obsVars, request, rawEnv, pageTexts, naming>>

\* ------------------------------------------------------------ unique_name
\* A name is the sequence of its pieces: letters, "_", digits, blanks, and
\* whole words that are never split.
LowerPiece(c) ==
    CASE c = "A" -> "a"
      [] c = "Combined_Documents" -> "combined_documents"
      [] OTHER -> c

\* str.lower()
LowerName(name) == [k \in 1..Len(name) |-> LowerPiece(name[k])]

\* str.strip()
RECURSIVE StripLeft(_)
StripLeft(name) ==
    IF name # <<>> /\ Head(name) = " " THEN StripLeft(Tail(name)) ELSE name
RECURSIVE StripRight(_)
StripRight(name) ==
    IF name # <<>> /\ name[Len(name)] = " "
    THEN StripRight(SubSeq(name, 1, Len(name) - 1)) ELSE name
Strip(name) == StripRight(StripLeft(name))

Digits == <<"1", "2", "3", "4", "5", "6", "7", "8", "9">>
\* f"{base}_{index}"
Suffixed(base, n) == base \o <<"_", Digits[n]>>

\* a test that compares the candidate as it is spelled
NameTakenExact(candidate, used_names) == candidate \in used_names

\* line 288: candidate.lower() in used_names
NameTaken(candidate, used_names) == LowerName(candidate) \in used_names

\* lines 284-287, called from the loop of lines 314-315 or 386-395
UniqueNameCall ==
    /\ pc = "names"
    /\ naming.i <= Len(naming.stems)
    /\ LET stripped == Strip(naming.stems[naming.i])
           base == IF stripped # <<>> THEN stripped ELSE naming.fallback
       IN  naming' = [naming EXCEPT !.base = base, !.candidate = base, !.index = 1]
    /\ pc' = "unique"
    /\ UNCHANGED <<envVars, fsVars, genLocals, ocrLocals, obsVars, request, signed, rawEnv,
                   pageTexts>>

\* lines 288-290: the candidate is taken, the next one is tried
UniqueNameNext ==
    /\ pc = "unique"
    /\ NameTaken(naming.candidate, naming.used_names)
    /\ naming' = [naming EXCEPT !.candidate = Suffixed(naming.base, naming.index),
                                !.index = naming.index + 1]
    /\ UNCHANGED <<envVars, fsVars, pc, genLocals, ocrLocals, obsVars, request, signed, rawEnv,
                   pageTexts>>

\* lines 291-292: the candidate is free; it is recorded and returned
UniqueNameReturn ==
    /\ pc = "unique"
    /\ ~NameTaken(naming.candidate, naming.used_names)
    /\ naming' = [naming EXCEPT
                     !.used_names = naming.used_names \cup {LowerName(naming.candidate)},
                     !.returned = Append(naming.returned, naming.candidate),
                     !.i = naming.i + 1]
    /\ pc' = "names"
    /\ UNCHANGED <<envVars, fsVars, genLocals, ocrLocals, obsVars, request, signed, rawEnv,
                   pageTexts>>

NamesNext == UniqueNameCall \/ UniqueNameNext \/ UniqueNameReturn

\* ------------------------------------------- single invocations (SpecUnits)
\* Inputs of one call of generate_ai_documents: the state of each document
\* (source, cache entry, outputs on disk) and the environment.
UnitContent(d) == <<d, SampleMerged(1)>>
StaleContent(d) == <<d, SampleMerged(2)>>

UnitDocStates ==
    {[src |-> "absent", entry |-> "none", out |-> "all"],
     [src |-> "empty", entry |-> "none", out |-> "all"],
     [src |-> "text", entry |-> "none", out |-> "none"],
     [src |-> "text", entry |-> "none", out |-> "all"],
     [src |-> "text", entry |-> "match", out |-> "all"],
     [src |-> "text", entry |-> "match", out |-> "no_md"],
     [src |-> "text", entry |-> "match", out |-> "no_docx"],
     [src |-> "text", entry |-> "stale", out |-> "all"]}

UnitShapes ==
    {[decl |-> {"docx", "md"}, renderer |-> TRUE, textutil |-> FALSE],
     [decl |-> {"docx", "md"}, renderer |-> FALSE, textutil |-> FALSE],
     [decl |-> {"docx", "doc", "md"}, renderer |-> TRUE, textutil |-> TRUE],
     [decl |-> {"docx", "doc", "md"}, renderer |-> TRUE, textutil |-> FALSE],
     [decl |-> {"doc", "md"}, renderer |-> TRUE, textutil |-> TRUE],
     [decl |-> {"doc", "md"}, renderer |-> FALSE, textutil |-> TRUE]}

UnitSignature == model_signature([model |-> 1, reasoning_effort |-> "medium"])

InitGenLocals ==
    /\ index = <<>>
    /\ tasks = <<>>
    /\ fut = [d \in AiDocIds |-> "none"]
    /\ attempt = [d \in AiDocIds |-> 0]
    /\ collected = {}
    /\ results = <<>>
    /\ response = Unbound
    /\ wi = 1

InitObs ==
    /\ calls = [d \in AiDocIds |-> 0]
    /\ sleeps = [d \in AiDocIds |-> <<>>]
    /\ reported = [d \in AiDocIds |-> 0]
    /\ ocrCalls = 0

\* no call of sign_request or of a resolve_* function is in progress
InitCallsIdle ==
    /\ request = <<>>
    /\ signed = <<>>
    /\ rawEnv = <<>>
    /\ pageTexts = <<>>
    /\ naming = <<>>

NoPdf == [name |-> "a.pdf", pages |-> <<>>]

InitOcrLocals ==
    /\ photo_files = <<>>
    /\ cur_pdf = NoPdf
    /\ ocrFut = <<>>
    /\ ocrResults = <<>>
    /\ ocrCollected = {}

InitOcrFs ==
    /\ pageDir = [n \in PdfNames |-> NoFile]
    /\ photoTxt = NoFile
    /\ photoTexts = [n \in PhotoNames |-> NoFile]

NoFlags == [inputs_changed |-> FALSE, prompts_changed |-> FALSE,
            prompt_docs_missing |-> FALSE, ai_docs_missing |-> FALSE,
            ai_inputs_changed |-> FALSE]

\* a single invocation runs outside main(): no input directories, no run
InitMainIdle ==
    /\ inputs = [n \in MainFileNames |-> 0]
    /\ prompts = [d \in PromptDocIds |-> 0]
    /\ pdfTxt = NoFile
    /\ wordTxt = NoFile
    /\ merged = NoFile
    /\ snapshotFile = NoFile
    /\ flags = NoFlags
    /\ pdf_files = <<>>
    /\ word_files = <<>>
    /\ pdf_i = 1
    /\ runs = 0
    /\ nEdits = 0
    /\ edits = {}
    /\ editedDocs = {}
    /\ lastFailed = {}
    /\ fs0 = <<>>
    /\ faultsLeft = MaxUnitFaults

InitUnitsGen ==
    /\ pc = "gen"
    /\ \E cfg \in {"ok", "no_key", "no_model"} :
          /\ apiKey = (cfg # "no_key")
          /\ envModel = IF cfg = "no_model" THEN 0 ELSE 1
          /\ retries \in IF cfg = "ok" THEN 0..MaxRetries ELSE {0}
          /\ workers \in IF cfg = "ok" THEN 1..MaxWorkers ELSE {1}
          /\ \E shape \in UnitShapes :
                /\ cfg # "ok" => shape = [decl |-> {"docx", "md"}, renderer |-> TRUE,
                                          textutil |-> FALSE]
                /\ decl = [d \in AiDocIds |-> shape.decl]
                /\ renderer = shape.renderer
                /\ textutil = shape.textutil
                /\ \E st \in [AiDocIds -> UnitDocStates] :
                      /\ promptDoc = [d \in PromptDocIds |->
                            IF d = 0 \/ st[d].src = "absent" THEN NoFile
                            ELSE IF st[d].src = "empty" THEN File(EmptyText)
                            ELSE File(UnitContent(d))]
                      /\ aiOut = [d \in AiDocIds |-> [k \in OutputKinds |->
                            IF \/ k \notin shape.decl
                               \/ st[d].out = "none"
                               \/ st[d].out = "no_md" /\ k = "md"
                               \/ st[d].out = "no_docx" /\ k \in {"docx", "doc"}
                            THEN NoFile
                            ELSE File(chat_completion(StaleContent(d)))]]
                      /\ LET keyed == {d \in AiDocIds : st[d].entry # "none"}
                             idx == [k \in {CacheKey(d, UnitSignature) : d \in keyed} |->
                                        [hash |-> IF st[k[1]].entry = "match"
                                                  THEN hash_text(UnitContent(k[1]))
                                                  ELSE hash_text(StaleContent(k[1])),
                                         updated_at |-> 0]]
                         IN indexFile = IF keyed = {} THEN NoFile ELSE File(idx)
    /\ envEffort = "medium"
    /\ backoff = DefaultBackoff
    /\ now = 1
    /\ tmpDocx = {}
    /\ ocrConfig = TRUE
    /\ ocrWorkers = 1
    /\ InitGenLocals
    /\ InitOcrFs
    /\ InitOcrLocals
    /\ InitMainIdle
    /\ InitObs
    /\ InitCallsIdle

\* environment and files that a single OCR invocation does not read
InitGenIdle ==
    /\ apiKey = TRUE
    /\ envModel = 1
    /\ envEffort = "medium"
    /\ retries = DefaultRetries
    /\ backoff = DefaultBackoff
    /\ workers = 1
    /\ renderer = TRUE
    /\ textutil = FALSE
    /\ decl = [d \in AiDocIds |-> {"docx", "md"}]
    /\ now = 1
    /\ promptDoc = [d \in PromptDocIds |-> NoFile]
    /\ aiOut = [d \in AiDocIds |-> [k \in OutputKinds |-> NoFile]]
    /\ tmpDocx = {}
    /\ indexFile = NoFile
    /\ InitGenLocals

\* the i-th image holds the text i
UnitPhotos(n) == [i \in 1..n |-> [name |-> PhotoNameSeq[i], text |-> i]]

\* pages with a text layer (text and image agree) or scanned (no text layer)
UnitPage(i, kind) == [text |-> IF kind = "text" THEN i ELSE 0, image |-> i]

\* one call of write_combined_photo_txt
InitUnitsPhoto ==
    /\ pc = "photo"
    /\ \E n \in 0..MaxPhotos : photo_files = UnitPhotos(n)
    /\ cur_pdf = NoPdf
    /\ ocrConfig \in BOOLEAN
    /\ ocrWorkers \in 1..MaxWorkers
    /\ ocrFut = <<>> /\ ocrResults = <<>> /\ ocrCollected = {}
    /\ InitGenIdle
    /\ InitOcrFs
    /\ InitMainIdle
    /\ InitObs
    /\ InitCallsIdle

\* one call of extract_text_from_pdf
InitUnitsPdf ==
    /\ pc = "pdf"
    /\ \E n \in 1..MaxPages : \E kinds \in [1..n -> {"text", "scan"}] :
          cur_pdf = [name |-> "b.pdf", pages |-> [i \in 1..n |-> UnitPage(i, kinds[i])]]
    /\ photo_files = <<>>
    /\ ocrConfig \in BOOLEAN
    /\ ocrWorkers \in 1..MaxWorkers
    /\ ocrFut = <<>> /\ ocrResults = <<>> /\ ocrCollected = {}
    /\ InitGenIdle
    /\ InitOcrFs
    /\ InitMainIdle
    /\ InitObs
    /\ InitCallsIdle

\* ------------------------------------------------------------------ main()
PdfOrder == <<"a.pdf", "b.pdf">>
WordOrder == <<"c.docx">>
PhotoOrder == <<"p1.png">>

Present(n) == inputs[n] # 0

\* the pages of a PDF: a.pdf has a text layer, b.pdf is a scan
PdfOf(n) == [name |-> n,
             pages |-> <<UnitPage(inputs[n], IF n = "a.pdf" THEN "text" ELSE "scan")>>]
WordOf(n) == [name |-> n, lines |-> <<inputs[n]>>]
PhotoOf(n) == [name |-> n, text |-> inputs[n]]

RECURSIVE Listed(_, _)
\* list_*_files: the files present, sorted by lower-cased name
Listed(order, i) ==
    IF i > Len(order) THEN <<>>
    ELSE (IF Present(order[i]) THEN <<order[i]>> ELSE <<>>) \o Listed(order, i + 1)

list_pdf_files == [i \in 1..Len(Listed(PdfOrder, 1)) |-> PdfOf(Listed(PdfOrder, 1)[i])]
list_word_files == [i \in 1..Len(Listed(WordOrder, 1)) |-> WordOf(Listed(WordOrder, 1)[i])]
list_photo_files == [i \in 1..Len(Listed(PhotoOrder, 1)) |-> PhotoOf(Listed(PhotoOrder, 1)[i])]

\* lines 671-676: sorted name lists (as sets) and the prompt values
current_snapshot ==
    [pdf |-> {n \in PdfNames : Present(n)},
     word |-> {n \in WordNames : Present(n)},
     photo |-> {n \in MainPhotoNames : Present(n)},
     prompts |-> prompts]

\* a comparison that always reports a change
InputsChangedAlways(cur, prev) == TRUE

\* load_snapshot (lines 581-587): the document as main() uses it, NoFile
\* standing for {}
load_snapshot(f) == IF LoadOutcome(f) = "object" THEN f ELSE NoFile

\* lines 677-711 do not survive the persisted documents: a load raises, or
\* .get is called on a loaded value that is not a dict (lines 680 and 708)
MainStartRaises ==
    \/ LoadOutcome(snapshotFile) \in {"raise", "value"}
    \/ /\ HasSettings
       /\ \/ LoadOutcome(indexFile) = "raise"
          \/ /\ LoadOutcome(indexFile) = "value"
             /\ \E d \in AiDocIds :
                   Exists(promptDoc[d]) /\ Content(promptDoc[d]) # EmptyText

\* lines 679-683; load_snapshot gives {} when the file is missing
InputsChanged(cur, prev) ==
    \/ ~Exists(prev)
    \/ cur.pdf # Content(prev).pdf
    \/ cur.word # Content(prev).word
    \/ cur.photo # Content(prev).photo

\* line 684
PromptsChanged(cur, prev) == ~Exists(prev) \/ cur.prompts # Content(prev).prompts

\* line 685
PromptDocsMissing == \E d \in PromptDocIds : ~Exists(promptDoc[d])

\* lines 686-695
AiDocsMissing == \E d \in AiDocIds : \E k \in decl[d] : ~Exists(aiOut[d][k])

\* a cache comparison that always reports a change
CacheAlwaysChanged == TRUE

\* lines 696-711
AiInputsChanged ==
    /\ HasSettings
    /\ \E d \in AiDocIds :
          /\ Exists(promptDoc[d])
          /\ Content(promptDoc[d]) # EmptyText
          /\ CachedHash(load_ai_output_index, CacheKey(d, model_signature(ai_settings)))
                # hash_text(Content(promptDoc[d]))

\* extraction gated on the merged text alone
NeedsExtractionMergedOnly(inputs_changed, merged_exists) == ~merged_exists

\* line 722: inputs_changed or not OUTPUT_MERGED_TXT.exists()
NeedsExtraction(inputs_changed, merged_exists) == inputs_changed \/ ~merged_exists

\* a no-op check that looks at the snapshot alone
AnyFlagOfSnapshot(f) == f.inputs_changed \/ f.prompts_changed

\* lines 712-718: the negation of the no-op condition
AnyFlag(f) == \/ f.inputs_changed \/ f.prompts_changed \/ f.prompt_docs_missing
              \/ f.ai_docs_missing \/ f.ai_inputs_changed

AllFiles == <<promptDoc, aiOut, tmpDocx, indexFile, pageDir, photoTxt, photoTexts,
              pdfTxt, wordTxt, merged, snapshotFile>>

\* lines 612-720: list the inputs, compare with the snapshot, no-op check
MainStart ==
    /\ pc = "idle"
    /\ runs < MaxRuns
    /\ IF MainStartRaises
       THEN /\ pc' = "crashed"
            /\ UNCHANGED flags
       ELSE LET prev == load_snapshot(snapshotFile)
                f == [inputs_changed |-> InputsChanged(current_snapshot, prev),
                      prompts_changed |-> PromptsChanged(current_snapshot, prev),
                      prompt_docs_missing |-> PromptDocsMissing,
                      ai_docs_missing |-> AiDocsMissing,
                      ai_inputs_changed |-> AiInputsChanged]
            IN /\ flags' = f
               /\ pc' = IF ~AnyFlag(f) THEN "done"
                        ELSE IF NeedsExtraction(f.inputs_changed, Exists(merged))
                        THEN "extract"
                        ELSE "prompts"
    /\ pdf_files' = list_pdf_files
    /\ word_files' = list_word_files
    /\ photo_files' = list_photo_files
    /\ fs0' = AllFiles
    /\ now' = runs + 1
    /\ UNCHANGED <<apiKey, envModel, envEffort, retries, backoff, workers, renderer,
                   textutil, decl, ocrConfig, ocrWorkers, inputs, prompts>>
    /\ UNCHANGED <<callVars, genFsVars, ocrFsVars, mainFsVars, pdf_i, genLocals, cur_pdf, ocrFut,
                   ocrResults, ocrCollected, genObs, ocrCalls, faultsLeft, runs, nEdits, edits,
                   editedDocs, lastFailed>>

\* lines 598-609 and the opening of OUTPUT_PDF_TXT (line 313): cleanup_outputs
\* removes OUTPUT_DIR (combined texts, prompt documents, AI outputs, index,
\* snapshot) and every folder and .txt file of TEXT_DIR
MainCleanup ==
    /\ pc = "extract"
    /\ promptDoc' = [d \in PromptDocIds |-> NoFile]
    /\ aiOut' = [d \in AiDocIds |-> [k \in OutputKinds |-> NoFile]]
    /\ tmpDocx' = {}
    /\ indexFile' = NoFile
    /\ pageDir' = [n \in PdfNames |-> NoFile]
    /\ photoTxt' = NoFile
    /\ photoTexts' = [n \in PhotoNames |-> NoFile]
    /\ wordTxt' = NoFile
    /\ merged' = NoFile
    /\ snapshotFile' = NoFile
    /\ pdfTxt' = IF pdf_files # <<>> THEN File(<<>>) ELSE NoFile
    /\ pdf_i' = 1
    /\ pc' = "pdf_loop"
    /\ UNCHANGED <<envVars, callVars, flags, pdf_files, word_files, genLocals, ocrLocals, obsVars>>

\* lines 314-316: the next PDF is handed to extract_text_from_pdf
PdfLoopCall ==
    /\ pc = "pdf_loop"
    /\ pdf_i <= Len(pdf_files)
    /\ cur_pdf' = pdf_files[pdf_i]
    /\ pc' = "pdf"
    /\ UNCHANGED <<envVars, callVars, genFsVars, ocrFsVars, mainFsVars, mainLocals, genLocals,
                   photo_files, ocrFut, ocrResults, ocrCollected, obsVars>>

\* lines 116-117: the non-empty ones of a sequence of texts
RECURSIVE NonEmptyTexts(_, _)
NonEmptyTexts(texts, i) ==
    IF i > Len(texts) THEN <<>>
    ELSE (IF texts[i] # 0 THEN <<texts[i]>> ELSE <<>>) \o NonEmptyTexts(texts, i + 1)

\* sorted(..., key=page_sort_key): page_<n>.txt is ordered by the number n
RECURSIVE SortedByPage(_)
SortedByPage(S) ==
    IF S = {} THEN <<>>
    ELSE LET m == CHOOSE x \in S : \A y \in S : x <= y
         IN <<m>> \o SortedByPage(S \ {m})

\* iter_page_files (lines 98-109): the page files of a folder, page_<n>.txt
\* being entry n of the folder
iter_page_files(folder) ==
    IF ~Exists(folder) THEN <<>> ELSE SortedByPage(DOMAIN Content(folder))

\* iter_page_texts (lines 112-117): the non-empty texts of the page files
iter_page_texts(folder) ==
    LET files == iter_page_files(folder)
    IN NonEmptyTexts([k \in 1..Len(files) |-> Content(folder)[files[k]]], 1)

\* one call of iter_page_texts on the folder of the PDF just extracted
ReadPageTexts ==
    /\ pc = "pdf_ret"
    /\ pageTexts' = iter_page_texts(pageDir[cur_pdf.name])
    /\ pc' = "pages_ret"
    /\ UNCHANGED <<envVars, fsVars, genLocals, ocrLocals, obsVars, request, signed, rawEnv, naming>>

\* lines 318-328: title line and page texts of the PDF just extracted
PdfLoopSection ==
    /\ pc = "pdf_ret"
    /\ pdfTxt' = File(Append(Content(pdfTxt),
                     Section(cur_pdf.name, iter_page_texts(pageDir[cur_pdf.name]))))
    /\ pdf_i' = pdf_i + 1
    /\ pc' = "pdf_loop"
    /\ UNCHANGED <<envVars, callVars, genFsVars, ocrFsVars, wordTxt, merged, snapshotFile, flags,
                   pdf_files, word_files, genLocals, ocrLocals, obsVars>>

\* iter_word_texts of a .docx: nothing without python-docx
WordLines(w) == IF renderer THEN w.lines ELSE <<>>

\* lines 727-730: write_combined_word_txt, then write_combined_photo_txt
MainWord ==
    /\ pc = "pdf_loop"
    /\ pdf_i > Len(pdf_files)
    /\ wordTxt' = IF word_files # <<>>
                  THEN File([i \in 1..Len(word_files) |->
                                Section(word_files[i].name, WordLines(word_files[i]))])
                  ELSE wordTxt
    /\ pc' = "photo"
    /\ UNCHANGED <<envVars, callVars, genFsVars, ocrFsVars, pdfTxt, merged, snapshotFile,
                   mainLocals, genLocals, ocrLocals, obsVars>>

\* a merge that copies nothing from its sources
MergeNothing(f) == <<>>

\* a source of write_merged_txt: skipped when missing or empty
MergeSource(f) == IF Exists(f) THEN Content(f) ELSE <<>>

\* line 731: write_merged_txt
MainMerge ==
    /\ pc = "photo_ret"
    /\ merged' = File(MergeSource(pdfTxt) \o MergeSource(wordTxt) \o MergeSource(photoTxt))
    /\ pc' = "prompts"
    /\ UNCHANGED <<envVars, callVars, genFsVars, ocrFsVars, pdfTxt, wordTxt, snapshotFile,
                   mainLocals, genLocals, ocrLocals, obsVars>>

\* the text of the prompt of document d
PromptText(d) == 10 * d + prompts[d]

\* write_prompt_doc (lines 417-424) for one prompt document
write_prompt_doc(d) ==
    IF prompts[d] = 0 THEN promptDoc[d]
    ELSE IF ~Exists(merged) THEN promptDoc[d]
    ELSE IF Content(merged) = <<>> THEN promptDoc[d]
    ELSE File(<<PromptText(d), Content(merged)>>)

\* lines 733-739: the prompt documents, then generation if anything changed
MainPrompts ==
    /\ pc = "prompts"
    /\ promptDoc' = [d \in PromptDocIds |-> write_prompt_doc(d)]
    /\ pc' = IF AnyFlag(flags) THEN "gen" ELSE "snapshot"
    /\ UNCHANGED <<envVars, callVars, aiOut, tmpDocx, indexFile, ocrFsVars, mainFsVars,
                   mainLocals, genLocals, ocrLocals, obsVars>>

\* line 741: save_snapshot
MainSaveSnapshot ==
    /\ pc \in {"gen_ret", "snapshot"}
    /\ snapshotFile' = File(current_snapshot)
    /\ pc' = "done"
    /\ UNCHANGED <<envVars, callVars, genFsVars, ocrFsVars, pdfTxt, wordTxt, merged,
                   mainLocals, genLocals, ocrLocals, obsVars>>

\* main() has returned: its locals are gone
MainExit ==
    /\ pc = "done"
    /\ pc' = "idle"
    /\ runs' = runs + 1
    /\ lastFailed' = {d \in AiDocIds : reported[d] > 0}
    /\ edits' = {}
    /\ editedDocs' = {}
    /\ fs0' = <<>>
    /\ flags' = NoFlags
    /\ pdf_files' = <<>>
    /\ word_files' = <<>>
    /\ pdf_i' = 1
    /\ index' = <<>>
    /\ tasks' = <<>>
    /\ fut' = [d \in AiDocIds |-> "none"]
    /\ attempt' = [d \in AiDocIds |-> 0]
    /\ collected' = {}
    /\ results' = <<>>
    /\ response' = Unbound
    /\ wi' = 1
    /\ photo_files' = <<>>
    /\ cur_pdf' = NoPdf
    /\ ocrFut' = <<>>
    /\ ocrResults' = <<>>
    /\ ocrCollected' = {}
    /\ calls' = [d \in AiDocIds |-> 0]
    /\ sleeps' = [d \in AiDocIds |-> <<>>]
    /\ reported' = [d \in AiDocIds |-> 0]
    /\ ocrCalls' = 0
    /\ UNCHANGED <<envVars, callVars, genFsVars, ocrFsVars, mainFsVars, nEdits, faultsLeft>>

\* ------------------------------------------- changes between two runs
CanEdit == pc = "idle" /\ runs >= 1 /\ runs < MaxRuns /\ nEdits < MaxEdits

\* a PROMPT_* value is set, changed or removed
EditPrompt(d, v) ==
    /\ CanEdit
    /\ v # prompts[d]
    /\ prompts' = [prompts EXCEPT ![d] = v]
    /\ edits = {}
    /\ edits' = {"prompt"}
    /\ editedDocs' = {d}
    /\ nEdits' = nEdits + 1
    /\ UNCHANGED <<apiKey, envModel, envEffort, retries, backoff, workers, renderer,
                   textutil, decl, now, ocrConfig, ocrWorkers, inputs>>
    /\ UNCHANGED <<callVars, fsVars, pc, genLocals, ocrLocals, genObs, ocrCalls, faultsLeft, runs,
                   lastFailed, fs0>>

\* DOUBAO_MODEL or DOUBAO_REASONING_EFFORT is changed
EditModel(m, e) ==
    /\ CanEdit
    /\ <<m, e>> # <<envModel, envEffort>>
    /\ m = envModel \/ e = envEffort
    /\ envModel' = m
    /\ envEffort' = e
    /\ edits = {}
    /\ edits' = {"model"}
    /\ nEdits' = nEdits + 1
    /\ UNCHANGED <<apiKey, retries, backoff, workers, renderer, textutil, decl, now,
                   ocrConfig, ocrWorkers, inputs, prompts>>
    /\ UNCHANGED <<callVars, fsVars, pc, genLocals, ocrLocals, genObs, ocrCalls, faultsLeft, runs,
                   editedDocs, lastFailed, fs0>>

\* an input file is added, removed, or modified under its name
EditInput(n, v) ==
    /\ CanEdit
    /\ v # inputs[n]
    /\ inputs' = [inputs EXCEPT ![n] = v]
    /\ edits = {}
    /\ edits' = {IF inputs[n] = 0 THEN "add"
                  ELSE IF v = 0 THEN "remove" ELSE "modify"}
    /\ nEdits' = nEdits + 1
    /\ UNCHANGED <<apiKey, envModel, envEffort, retries, backoff, workers, renderer,
                   textutil, decl, now, ocrConfig, ocrWorkers, prompts>>
    /\ UNCHANGED <<callVars, fsVars, pc, genLocals, ocrLocals, genObs, ocrCalls, faultsLeft, runs,
                   editedDocs, lastFailed, fs0>>

MainNext ==
    \/ MainStart
    \/ MainCleanup
    \/ PdfLoopCall
    \/ PdfLoopSection
    \/ MainWord
    \/ MainMerge
    \/ MainPrompts
    \/ MainSaveSnapshot
    \/ MainExit
    \/ \E d \in PromptDocIds : \E v \in 0..NumVersions : EditPrompt(d, v)
    \/ \E m \in 1..NumModels : \E e \in {"medium", "high"} : EditModel(m, e)
    \/ \E n \in MainFileNames : \E v \in 0..NumVersions : EditInput(n, v)

\* the first run: no outputs, no snapshot, no cache
Init ==
    /\ pc = "idle"
    /\ apiKey \in BOOLEAN
    /\ envModel \in IF apiKey THEN {0, 1} ELSE {1}
    /\ envEffort = "medium"
    /\ retries \in 0..MaxRetries
    /\ backoff = DefaultBackoff
    /\ workers = MaxWorkers
    /\ renderer \in BOOLEAN
    /\ textutil = FALSE
    /\ decl = [d \in AiDocIds |-> {"docx", "md"}]
    /\ now = 0
    /\ ocrConfig \in BOOLEAN
    /\ ocrWorkers = MaxWorkers
    /\ inputs = [n \in MainFileNames |-> IF n = "p1.png" THEN 0 ELSE 1]
    /\ prompts = [d \in PromptDocIds |-> 1]
    /\ promptDoc = [d \in PromptDocIds |-> NoFile]
    /\ aiOut = [d \in AiDocIds |-> [k \in OutputKinds |-> NoFile]]
    /\ tmpDocx = {}
    /\ indexFile = NoFile
    /\ InitOcrFs
    /\ pdfTxt = NoFile
    /\ wordTxt = NoFile
    /\ merged = NoFile
    /\ snapshotFile = NoFile
    /\ flags = NoFlags
    /\ pdf_files = <<>>
    /\ word_files = <<>>
    /\ pdf_i = 1
    /\ runs = 0
    /\ nEdits = 0
    /\ edits = {}
    /\ editedDocs = {}
    /\ lastFailed = {}
    /\ fs0 = <<>>
    /\ faultsLeft = MaxFaults
    /\ InitGenLocals
    /\ InitOcrLocals
    /\ InitObs
    /\ InitCallsIdle

Next == MainNext \/ GenNext \/ OcrNext

Spec == Init /\ [][Next]_vars

\* -------------------------------------------- single invocations, continued
\* The documents main() finds persisted when it starts.
StartDocs(ok) == {NoFile, File(ok)} \cup {Corrupt(k) : k \in CorruptKinds}

\* one start of main() over the outputs of an earlier run, whose snapshot and
\* index documents may have been damaged since
InitUnitsStart ==
    /\ pc = "idle"
    /\ apiKey = TRUE
    /\ envModel \in {0, 1}
    /\ envEffort = "medium"
    /\ retries = 0
    /\ backoff = DefaultBackoff
    /\ workers = 1
    /\ renderer = TRUE
    /\ textutil = FALSE
    /\ decl = [d \in AiDocIds |-> {"docx", "md"}]
    /\ now = 1
    /\ ocrConfig = TRUE
    /\ ocrWorkers = 1
    /\ inputs = [n \in MainFileNames |-> IF n = "a.pdf" THEN 1 ELSE 0]
    /\ prompts = [d \in PromptDocIds |-> 1]
    /\ \E hasMerged \in BOOLEAN : \E hasPromptDocs \in BOOLEAN :
          /\ hasPromptDocs => hasMerged
          /\ merged = IF hasMerged THEN File(SampleMerged(1)) ELSE NoFile
          /\ pdfTxt = merged
          /\ promptDoc = [d \in PromptDocIds |->
                IF hasPromptDocs THEN File(<<PromptText(d), SampleMerged(1)>>)
                ELSE NoFile]
    /\ aiOut = [d \in AiDocIds |-> [k \in OutputKinds |-> NoFile]]
    /\ tmpDocx = {}
    /\ snapshotFile \in StartDocs(current_snapshot)
    /\ indexFile \in StartDocs(<<>>)
    /\ wordTxt = NoFile
    /\ flags = NoFlags
    /\ pdf_files = <<>>
    /\ word_files = <<>>
    /\ pdf_i = 1
    /\ runs = 0
    /\ nEdits = 0
    /\ edits = {}
    /\ editedDocs = {}
    /\ lastFailed = {}
    /\ fs0 = <<>>
    /\ faultsLeft = MaxUnitFaults
    /\ InitGenLocals
    /\ InitOcrLocals
    /\ InitOcrFs
    /\ InitObs
    /\ InitCallsIdle

\* The header and query maps sign_request may be handed.
HeaderNames == {"Host", "Content-Type", "Content-Md5", "Accept", "X-Trace", "X-TRACE"}
Hosts == {<<"h">>, <<"h", "80">>, <<"h", "443">>, <<"h", "8080">>,
          <<"[", "", "1]", "443">>}
QueryKeys == {"Action", "Version"}

HeaderValue(name, host) ==
    CASE name = "Host" -> host
      [] name = "Content-Type" -> <<"application/x-www-form-urlencoded">>
      [] name = "Content-Md5" -> <<"md5">>
      [] name = "Accept" -> <<"application/json">>
      [] name = "X-Trace" -> <<"a">>
      [] name = "X-TRACE" -> <<"b">>

QueryValue(key) == IF key = "Action" THEN <<"OCRNormal">> ELSE <<"2020-08-26">>

\* the orders in which a dict may hold up to n of the keys
KeyOrders(keys, n) ==
    UNION {{o \in [1..k -> keys] : \A i, j \in 1..k : o[i] = o[j] => i = j} : k \in 0..n}

HeaderMaps ==
    {[i \in 1..Len(o) |-> <<o[i], HeaderValue(o[i], host)>>] :
        o \in KeyOrders(HeaderNames, MaxHeaders), host \in Hosts}

QueryMaps ==
    {[i \in 1..Len(o) |-> <<o[i], QueryValue(o[i])>>] :
        o \in KeyOrders(QueryKeys, Cardinality(QueryKeys))}

\* one call of sign_request
InitUnitsSign ==
    /\ pc = "sign"
    /\ \E headers \in HeaderMaps : \E query \in QueryMaps :
       \E session_token \in {<<>>, <<"token">>} : \E clock \in 1..2 :
          request = [headers |-> headers, query |-> query,
                     session_token |-> session_token, clock |-> clock]
    /\ signed = <<>>
    /\ rawEnv = <<>>
    /\ pageTexts = <<>>
    /\ naming = <<>>
    /\ ocrConfig = TRUE
    /\ ocrWorkers = 1
    /\ InitGenIdle
    /\ InitOcrLocals
    /\ InitOcrFs
    /\ InitMainIdle
    /\ InitObs

\* main() at line 733: the merged text is missing, empty or written, the
\* prompt documents are missing or left by an earlier run
InitUnitsPrompts ==
    /\ pc = "prompts"
    /\ apiKey = TRUE
    /\ envModel = 1
    /\ envEffort = "medium"
    /\ retries = 0
    /\ backoff = DefaultBackoff
    /\ workers = 1
    /\ renderer = TRUE
    /\ textutil = FALSE
    /\ decl = [d \in AiDocIds |-> {"docx", "md"}]
    /\ now = 1
    /\ ocrConfig = TRUE
    /\ ocrWorkers = 1
    /\ inputs = [n \in MainFileNames |-> IF n = "a.pdf" THEN 1 ELSE 0]
    /\ \E promptless \in SUBSET {NumAiDocs} :
          prompts = [d \in PromptDocIds |-> IF d \in promptless THEN 0 ELSE 1]
    /\ merged \in {NoFile, File(<<>>), File(SampleMerged(1))}
    /\ pdfTxt = merged
    /\ \E hasPromptDocs \in BOOLEAN :
          promptDoc = [d \in PromptDocIds |->
                IF hasPromptDocs THEN File(<<PromptText(d), SampleMerged(2)>>)
                ELSE NoFile]
    /\ aiOut = [d \in AiDocIds |-> [k \in OutputKinds |-> NoFile]]
    /\ tmpDocx = {}
    /\ snapshotFile = NoFile
    /\ indexFile = NoFile
    /\ wordTxt = NoFile
    /\ \E changed \in BOOLEAN : flags = [NoFlags EXCEPT !.inputs_changed = changed]
    /\ pdf_files = list_pdf_files
    /\ word_files = <<>>
    /\ pdf_i = 1
    /\ runs = 0
    /\ nEdits = 0
    /\ edits = {}
    /\ editedDocs = {}
    /\ lastFailed = {}
    /\ faultsLeft = MaxUnitFaults
    /\ InitGenLocals
    /\ InitOcrLocals
    /\ InitOcrFs
    /\ InitObs
    /\ InitCallsIdle
    /\ fs0 = AllFiles

\* the values an environment variable may hold
RawValues ==
    {RawValue(kind, 0) : kind \in {"unset", "blank", "text"}}
        \cup {RawValue("num", n) : n \in -1..MaxRaw}

\* one resolution of the pool and retry settings
InitUnitsResolve ==
    /\ pc = "resolve"
    /\ \E w \in RawValues : \E r \in RawValues : \E o \in RawValues :
       \E b \in {RawValue("unset", 0), RawValue("text", 0), RawValue("num", 0),
                  RawValue("num", 20)} :
       \E c \in {0, 1, 3, 8} :
          rawEnv = [workers |-> w, retries |-> r, backoff |-> b, ocr_workers |-> o,
                    cpu_count |-> c]
    /\ request = <<>>
    /\ signed = <<>>
    /\ pageTexts = <<>>
    /\ naming = <<>>
    /\ ocrConfig = TRUE
    /\ ocrWorkers = 1
    /\ InitGenIdle
    /\ InitOcrLocals
    /\ InitOcrFs
    /\ InitMainIdle
    /\ InitObs

\* the stems of the files of one input directory
Stems == {<<"a">>, <<"A">>, <<"a", "_", "1">>, <<"A", "_", "1">>, <<" ">>, <<" ", "a">>,
          <<"pdf">>, <<"Combined_Documents">>}

\* one loop over the PDFs (used_folder_names starts with the name of the
\* output directory, line 311; the stems of the files of a directory differ)
\* or over the photos (used_names starts empty, line 368; a.png and a.jpg
\* have the same stem)
InitUnitsNames ==
    /\ pc = "names"
    /\ \E n \in 0..MaxNames : \E stems \in [1..n -> Stems] :
       \E loop \in {"pdf", "photo"} :
          /\ loop = "pdf" => \A k, l \in 1..n : stems[k] = stems[l] => k = l
          /\ naming = [stems |-> stems,
                       fallback |-> IF loop = "pdf" THEN <<"pdf">> ELSE <<"text">>,
                       initial |-> IF loop = "pdf" THEN {<<"combined_documents">>} ELSE {},
                       used_names |-> IF loop = "pdf" THEN {<<"combined_documents">>} ELSE {},
                       i |-> 1, base |-> <<>>, candidate |-> <<>>, index |-> 1,
                       returned |-> <<>>]
    /\ request = <<>>
    /\ signed = <<>>
    /\ rawEnv = <<>>
    /\ pageTexts = <<>>
    /\ ocrConfig = TRUE
    /\ ocrWorkers = 1
    /\ InitGenIdle
    /\ InitOcrLocals
    /\ InitOcrFs
    /\ InitMainIdle
    /\ InitObs

\* the loops that call unique_name, each call returning in the end
SpecNames == InitUnitsNames /\ [][NamesNext]_vars /\ WF_vars(NamesNext)

InitUnits ==
    \/ InitUnitsGen
    \/ InitUnitsPhoto
    \/ InitUnitsPdf
    \/ InitUnitsStart
    \/ InitUnitsSign
    \/ InitUnitsPrompts
    \/ InitUnitsResolve

NextUnits ==
    \/ GenNext \/ OcrNext \/ MainStart \/ SignRequest \/ MainPrompts \/ ResolveSettings
    \/ ReadPageTexts

SpecUnits == InitUnits /\ [][NextUnits]_vars

\* generate_ai_documents on its own, with every thread that can take a step
\* taking one in the end: a call of chat_completion returns or raises, a sleep
\* ends, an idle pool thread picks up a queued unit, and the calling thread
\* goes on
SpecGen == InitUnitsGen /\ [][GenNext]_vars /\ WF_vars(GenNext)

\* ------------------------------------------------------------------ claims
ResultDocs == {results[i].doc : i \in 1..Len(results)}
SuccessCount(d) == Cardinality({i \in 1..Len(results) : results[i].doc = d})
PersistedIndex == IF Exists(indexFile) THEN Content(indexFile) ELSE <<>>
HasSource(d) == Exists(promptDoc[d]) /\ Content(promptDoc[d]) # EmptyText
AllOutputsExist(d) == \A k \in decl[d] : Exists(aiOut[d][k])
CurrentKey(d) == CacheKey(d, model_signature(ai_settings))
EntryMatches(d) ==
    /\ CurrentKey(d) \in DOMAIN PersistedIndex
    /\ PersistedIndex[CurrentKey(d)].hash = hash_text(Content(promptDoc[d]))

\* the scan has just run and nothing has been written yet
ScanDone ==
    \/ pc = "gen_pool"
    \/ pc = "gen_ret" /\ apiKey /\ HasSettings /\ tasks = <<>>

\* C2: a document with non-empty source content and at least one declared
\* output is left out of tasks if and only if every declared output exists
\* and the persisted index entry under its cache key holds the hash of its
\* current content.
C2_CacheHitRule ==
    ScanDone =>
        \A d \in AiDocIds :
            (HasSource(d) /\ decl[d] # {}) =>
                ((d \notin TaskDocs) <=> (AllOutputsExist(d) /\ EntryMatches(d)))

C2_Witness ==
    /\ pc = "gen_pool"
    /\ \E d \in AiDocIds : HasSource(d) /\ d \notin TaskDocs
    /\ \E d \in AiDocIds : HasSource(d) /\ d \in TaskDocs /\ EntryMatches(d)

\* C3: when generate_ai_documents has returned, every output written for a
\* successful document (.md and .docx) holds the response produced from that
\* document's own source content.
C3_OutputsHoldOwnResponse ==
    (pc = "gen_ret" /\ results # <<>>) =>
        \A i \in 1..Len(results) :
            LET d == results[i].doc
                own == File(chat_completion(Content(promptDoc[d])))
            IN /\ "md" \in decl[d] => aiOut[d]["md"] = own
               /\ ("docx" \in decl[d] /\ renderer) => aiOut[d]["docx"] = own

\* C4: when save_ai_output_index has persisted the entries recorded in this
\* run, every declared output of each recorded document exists.
C4_EntryOnlyAfterOutputs ==
    (pc = "gen_ret" /\ results # <<>>) =>
        \A i \in 1..Len(results) : AllOutputsExist(results[i].doc)

\* the sleeps of a producer that failed on every attempt
ExhaustedSleeps == [k \in 1..retries |-> backoff * Pow2(k - 1)]

\* C5: a producer that fails on every attempt is invoked exactly
\* retries + 1 times, sleeps backoff * 2^k before the k-th retry, and is
\* reported as exactly one failure.
C5_RetryExhaustion ==
    \A d \in AiDocIds :
        /\ fut[d] = "err" =>
              /\ calls[d] = retries + 1
              /\ sleeps[d] = ExhaustedSleeps
              /\ reported[d] = IF d \in collected THEN 1 ELSE 0
        /\ (pc = "gen_ret" /\ d \in TaskDocs /\ d \notin ResultDocs) =>
              fut[d] = "err" /\ reported[d] = 1

C5_Witness ==
    /\ pc = "gen_ret"
    /\ retries >= 1
    /\ \E d \in AiDocIds : fut[d] = "err" /\ reported[d] = 1 /\ Len(sleeps[d]) = retries

\* C6: every scheduled unit ends in exactly one outcome (one success in
\* results or one reported failure); a unit that exhausted its retries does
\* not keep a sibling from having its outputs and cache entry written, and
\* generate_ai_documents neither raises nor stops before it returns.
C6_FailureIsolation ==
    /\ pc # "raised"
    /\ pc \in {"gen", "gen_pool", "gen_write"} => ENABLED GenNext
    /\ \A d \in AiDocIds : SuccessCount(d) + reported[d] <= 1
    /\ (pc = "gen_ret" /\ tasks # <<>>) =>
          /\ \A d \in TaskDocs : SuccessCount(d) + reported[d] = 1
          /\ \A i \in 1..Len(results) :
                LET d == results[i].doc
                IN /\ "md" \in decl[d] => Exists(aiOut[d]["md"])
                   /\ ("docx" \in decl[d] /\ renderer) => Exists(aiOut[d]["docx"])
                   /\ results[i].cache_key \in DOMAIN PersistedIndex
                   /\ PersistedIndex[results[i].cache_key].hash = results[i].hash

\* C7: the number of producer calls executing at the same moment never
\* exceeds the worker count, in the generation fan-out, the per-image OCR
\* fan-out and the per-page OCR fan-out.
C7_BoundedConcurrency ==
    /\ pc = "gen_pool" => Cardinality(Running) <= workers
    /\ pc \in {"photo_pool", "pdf_pool"} => Cardinality(OcrRunning) <= ocrWorkers
    /\ pc \notin {"gen_pool"} => Running = {}
    /\ pc \notin {"photo_pool", "pdf_pool"} => OcrRunning = {}

C7_Witness ==
    \/ /\ pc = "gen_pool"
       /\ Len(tasks) > workers
       /\ Cardinality(Running) = workers
       /\ \E d \in AiDocIds : fut[d] = "queued"
    \/ /\ pc \in {"photo_pool", "pdf_pool"}
       /\ Len(ocrFut) > ocrWorkers
       /\ Cardinality(OcrRunning) = ocrWorkers
       /\ \E i \in 1..Len(ocrFut) : ocrFut[i] = "queued"

C6_Witness ==
    /\ pc = "gen_ret"
    /\ \E d \in TaskDocs : reported[d] = 1
    /\ \E d \in ResultDocs :
          /\ Exists(aiOut[d]["md"])
          /\ PersistedIndex[CurrentKey(d)].hash = hash_text(Content(promptDoc[d]))


\* ------------------------------------------------ claims about whole runs
\* A run of main() is judged in the state "done", where its flags, its task
\* list and the files as they were at its start (fs0) are still at hand.
PromptDocs0 == fs0[1]
AiOut0 == fs0[2]
Index0 == IF Exists(fs0[4]) THEN Content(fs0[4]) ELSE <<>>
RunEnded == pc = "done"
Skipped == ~AnyFlag(flags)
NoRemoteCalls == (\A d \in AiDocIds : calls[d] = 0) /\ ocrCalls = 0

\* document d was up to date when the run started: if it had a non-empty
\* source, all its declared outputs were on disk and its index entry under
\* the current model signature carried the hash of that source
UpToDate0(d) ==
    (Exists(PromptDocs0[d]) /\ Content(PromptDocs0[d]) # EmptyText) =>
        /\ \A k \in decl[d] : Exists(AiOut0[d][k])
        /\ CachedHash(Index0, CurrentKey(d)) = hash_text(Content(PromptDocs0[d]))

InputKinds == {"add", "remove", "modify"}

\* the merged text carries the current content of input file n
MergedHolds(n) ==
    /\ Exists(merged)
    /\ \E i \in 1..Len(Content(merged)) : Content(merged)[i] = Section(n, <<inputs[n]>>)

\* C8 as stated: after a source file was added, removed or modified under its
\* name, the run regenerates the affected artifacts: it is not skipped and
\* the merged text holds the current text of a.pdf (a PDF with a text layer).
C8_RegeneratesAfterInputChange ==
    (RunEnded /\ edits # {} /\ edits \subseteq InputKinds) =>
        /\ ~Skipped
        /\ Present("a.pdf") => MergedHolds("a.pdf")

ChangedSources == {d \in AiDocIds : promptDoc[d] # PromptDocs0[d]}

SiblingEntriesKept(d) ==
    \A key \in DOMAIN Index0 \cup DOMAIN PersistedIndex :
        key[1] # d =>
            /\ key \in DOMAIN Index0
            /\ key \in DOMAIN PersistedIndex
            /\ Index0[key] = PersistedIndex[key]

ContentDrift ==
    /\ RunEnded
    /\ edits = {"prompt"}
    /\ Cardinality(ChangedSources) = 1
    /\ \A d \in AiDocIds : \A k \in decl[d] : Exists(AiOut0[d][k])

\* C9 as stated: if the source text of exactly one AI document changed since
\* the previous run (all outputs present, model configuration unchanged), the
\* run schedules exactly that document and leaves the index entries of its
\* siblings as they were.
C9_ContentDrift ==
    ContentDrift =>
        /\ TaskDocs = ChangedSources
        /\ \A d \in ChangedSources : SiblingEntriesKept(d)

\* C9 amended: the same, provided every AI document was up to date before
\* the change (its index entry matched the source text it then had).
C9_ContentDriftFromUpToDate ==
    (ContentDrift /\ \A d \in AiDocIds : UpToDate0(d)) =>
        /\ TaskDocs = ChangedSources
        /\ \A d \in ChangedSources : SiblingEntriesKept(d)

C9_Witness ==
    /\ ContentDrift
    /\ \A d \in AiDocIds : UpToDate0(d)
    /\ \E d \in ChangedSources :
          /\ TaskDocs = {d}
          /\ calls[d] > 0
          /\ \E s \in AiDocIds \ {d} : CurrentKey(s) \in DOMAIN Index0
          /\ SiblingEntriesKept(d)

\* C10 as stated: after the model name or the reasoning effort changed, the
\* run is not skipped and schedules every AI document that has a non-empty
\* source.
C10_ConfigDrift ==
    (RunEnded /\ edits = {"model"} /\ apiKey) =>
        /\ ~Skipped
        /\ TaskDocs = {d \in AiDocIds : HasSource(d)}


\* a run of main() leaves "idle" in this step
RunStarts == pc = "idle" /\ pc' # "idle"

\* the current file-name lists differ from those of the persisted snapshot
NamesDiffer == InputsChanged(current_snapshot, snapshotFile)

\* the current prompt values differ from those of the persisted snapshot
PromptValuesDiffer == PromptsChanged(current_snapshot, snapshotFile)

\* the combined files and the merged text are those of the listed inputs
SectionNames(f) == IF Exists(f) THEN [i \in 1..Len(Content(f)) |-> Content(f)[i][1]] ELSE <<>>
NamesOf(files) == [i \in 1..Len(files) |-> files[i].name]
MergedRebuilt ==
    /\ Exists(merged)
    /\ SectionNames(pdfTxt) = NamesOf(pdf_files)
    /\ SectionNames(wordTxt) = NamesOf(word_files)
    /\ SectionNames(merged) = SectionNames(pdfTxt) \o SectionNames(wordTxt)
                                 \o SectionNames(photoTxt)

Extracted0 == NeedsExtraction(flags.inputs_changed, Exists(fs0[10]))

\* a listed PDF without a text layer, or a listed photo, needs OCR
OcrNeeded ==
    \/ photo_files # <<>>
    \/ \E i \in 1..Len(pdf_files) : ~is_text_pdf(pdf_files[i].pages)

\* C12 as stated: save_snapshot is reached only in runs where no triggered
\* stage was skipped or failed: OCR was not skipped for missing credentials,
\* no OCR unit raised, generation was not skipped for a missing key or model,
\* and no generation unit was reported as failed.
C12_SnapshotOnlyAfterSuccess ==
    (RunEnded /\ ~Skipped) =>
        /\ apiKey /\ HasSettings
        /\ \A d \in AiDocIds : reported[d] = 0
        /\ (Extracted0 /\ OcrNeeded) => ocrConfig
        /\ \A i \in 1..Len(ocrFut) : ocrFut[i] # "raised"


\* the document found at the start of this run is not a readable JSON object
Damaged(f) == IsCorrupt(f)

\* C13 as stated: whatever the persisted snapshot and cache documents hold,
\* the run never terminates with an error because of them, and a document
\* that cannot be used counts as no prior state: with an unusable snapshot
\* the run proceeds as a first run (inputs and prompts count as changed).
C13_FailOpenOnCorruptState ==
    /\ pc # "crashed"
    /\ (pc \in {"extract", "prompts", "done"} /\ fs0 # <<>> /\ Damaged(fs0[11])) =>
          flags.inputs_changed /\ flags.prompts_changed

\* ------------------------------------------------- claims about sign_request
\* the same dict with its items in every iteration order
Orders(d) ==
    {[i \in 1..Len(d) |-> d[o[i]]] :
        o \in {f \in [1..Len(d) -> 1..Len(d)] : \A i, j \in 1..Len(d) : f[i] = f[j] => i = j}}

SameSigning(a, b) ==
    /\ a.canonical_request = b.canonical_request
    /\ a.signed_headers_string = b.signed_headers_string
    /\ a.signature = b.signature

OrderIndependent ==
    \A headers \in Orders(request.headers) : \A query \in Orders(request.query) :
        SameSigning(signed,
            sign_request([request EXCEPT !.headers = headers, !.query = query]))

\* no two header names of the call differ only by the case of their letters
NamesDistinctUpToCase ==
    \A i, j \in 1..Len(request.headers) :
        Lower(request.headers[i][1]) = Lower(request.headers[j][1]) => i = j

SignedLines == signed.canonical_request[4]
SignedNames == {signed.signed_headers_string[i] : i \in 1..Len(signed.signed_headers_string)}

\* the names the caller passed that belong to the signed subset, lower-cased
CallerSignedNames ==
    {Lower(name) : name \in {n \in Keys(request.headers) :
        n \in {"Content-Type", "Content-Md5", "Host"} \/ StartsWithX(n)}}

EndsInDefaultPort(host_value) ==
    Len(host_value) > 1 /\ host_value[Len(host_value)] \in {"80", "443"}

WithoutPort(host_value) == SubSeq(host_value, 1, Len(host_value) - 1)

\* C15: the signed headers are exactly Content-Type, Content-Md5, Host and the
\* names starting with X-, lower-cased: always X-Date and X-Content-Sha256,
\* X-Security-Token exactly when a session token is supplied, never Accept; a
\* Host value ending in port 80 or 443 is signed without the port, any other
\* Host value as it is.
C15_SignedHeaderSubset ==
    pc = "sign_ret" =>
        /\ SignedNames = CallerSignedNames \cup {"x-date", "x-content-sha256"}
               \cup (IF request.session_token # <<>> THEN {"x-security-token"} ELSE {})
        /\ Keys(SignedLines) = SignedNames
        /\ "accept" \notin SignedNames
        /\ "Host" \in Keys(request.headers) =>
              LET host_value == DictGet(request.headers, "Host")
              IN  DictGet(SignedLines, "host") =
                     IF EndsInDefaultPort(host_value) THEN WithoutPort(host_value)
                     ELSE host_value

\* ------------------------------------------------ claims about the OCR units
OcrStarted == {i \in 1..Len(ocrFut) : ocrFut[i] # "queued"}
OcrFailed == {i \in 1..Len(ocrFut) : ocrFut[i] \in {"empty", "raised"}}

\* C16: a unit that hits a transient remote error is given up only after the
\* retry budget is spent, a generation unit (retries + 1 calls before its
\* failure is reported) and an OCR unit of an image or a page alike (retries
\* further requests for the unit that failed).
C16_EveryUnitRetried ==
    /\ \A d \in AiDocIds : reported[d] > 0 => calls[d] = retries + 1
    /\ OcrFailed # {} => ocrCalls >= Cardinality(OcrStarted) + retries

\* ------------------------------------- claims about configuration and content
\* the prompt documents are those write_prompt_doc makes of the merged text
PromptDocsWritten ==
    \A d \in PromptDocIds :
        (prompts[d] # 0 /\ Content(merged) # <<>>) =>
            promptDoc[d] = File(<<PromptText(d), Content(merged)>>)

\* DOUBAO_MODEL is not set
ModelMissing == envModel = 0

\* C17: a missing configuration value stops only the stage that needs it and
\* the run never raises.  Without the API key or the model, no completion is
\* requested while the merged text, the prompt documents and the snapshot are
\* written.  Without OCR credentials no OCR request is made, the photo text is
\* not written and a scanned PDF yields an empty section, while the PDF with a
\* text layer and the Word file are extracted and every document with content
\* is sent to generation.
C17_ConfigErrorsStayInTheirStage ==
    /\ pc \notin {"raised", "crashed"}
    /\ (RunEnded /\ ~Skipped /\ (~apiKey \/ ModelMissing)) =>
          /\ \A d \in AiDocIds : calls[d] = 0
          /\ Exists(merged)
          /\ Extracted0 => MergedRebuilt
          /\ PromptDocsWritten
          /\ snapshotFile = File(current_snapshot)
    /\ ~ocrConfig => ocrCalls = 0
    /\ (RunEnded /\ Extracted0 /\ ~ocrConfig) =>
          /\ ~Exists(photoTxt)
          /\ Present("b.pdf") =>
                \E i \in 1..Len(Content(merged)) :
                    Content(merged)[i] = Section("b.pdf", <<>>)
          /\ Present("a.pdf") => MergedHolds("a.pdf")
          /\ (Present("c.docx") /\ renderer) => MergedHolds("c.docx")
          /\ PromptDocsWritten
          /\ (apiKey /\ ~ModelMissing) =>
                \A d \in AiDocIds : HasSource(d) => calls[d] >= 1

\* a run without the model and without OCR credentials, over a text PDF, a
\* scanned PDF and a photo, that extracted and wrote the prompt documents
C17_Witness ==
    /\ RunEnded
    /\ ModelMissing
    /\ ~ocrConfig
    /\ Extracted0
    /\ Present("a.pdf") /\ Present("b.pdf") /\ Present("p1.png")
    /\ MergedHolds("a.pdf")
    /\ \A d \in AiDocIds : HasSource(d) /\ calls[d] = 0
    /\ snapshotFile = File(current_snapshot)

\* what a finished OCR unit contributes: its text, nothing when it failed
UnitText(i, image) == IF ocrFut[i] = "text" THEN image ELSE 0
FanOutDone == ocrFut # <<>> /\ ocrCollected = 1..Len(ocrFut)

\* C18: a failed OCR unit costs only its own text.  After the photo fan-out
\* the combined text has one section per image, in the order of the images,
\* with the title of the image and its recognized text, empty for an image
\* whose unit failed; after the page fan-out the page texts are those of the
\* pages, in page order, empty for a page whose unit failed.
C18_FailedUnitLeavesSiblings ==
    /\ (pc = "photo_ret" /\ FanOutDone) =>
          /\ Exists(photoTxt)
          /\ Len(Content(photoTxt)) = Len(photo_files)
          /\ \A i \in 1..Len(photo_files) :
                Content(photoTxt)[i] =
                    Section(photo_files[i].name,
                            TextBody(UnitText(i, photo_files[i].text)))
    /\ (pc = "pdf_ret" /\ FanOutDone) =>
          /\ Exists(pageDir[cur_pdf.name])
          /\ Len(Content(pageDir[cur_pdf.name])) = Len(cur_pdf.pages)
          /\ \A i \in 1..Len(cur_pdf.pages) :
                Content(pageDir[cur_pdf.name])[i] = UnitText(i, cur_pdf.pages[i].image)

\* three images, the unit of the second raised, its siblings returned text
C18_Witness ==
    /\ pc = "photo_ret"
    /\ Len(photo_files) = 3
    /\ ocrFut = <<"text", "raised", "text">>
    /\ Content(photoTxt)[1] = Section(photo_files[1].name, <<photo_files[1].text>>)
    /\ Content(photoTxt)[2] = Section(photo_files[2].name, <<>>)
    /\ Content(photoTxt)[3] = Section(photo_files[3].name, <<photo_files[3].text>>)

MergedEmpty == ~Exists(merged) \/ Content(merged) = <<>>

\* the persisted index holds an entry written by this invocation
EntryWritten(d) ==
    /\ LoadOutcome(indexFile) = "object"
    /\ \E key \in DOMAIN Content(indexFile) :
          key[1] = d /\ Content(indexFile)[key].updated_at = now

\* C19: a document whose source is missing or holds no content gets no
\* task, no completion call, no output and no index entry; and while the
\* merged text is missing or empty the prompt documents stay as they were.
C19_NothingFromEmptyContent ==
    /\ \A d \in AiDocIds :
          ~HasSource(d) =>
              /\ d \notin TaskDocs
              /\ calls[d] = 0
              /\ ~EntryWritten(d)
              /\ fs0 # <<>> => aiOut[d] = fs0[2][d]
    /\ (fs0 # <<>> /\ MergedEmpty) => promptDoc = fs0[1]

\* write_prompt_doc has run over an empty merged text with the inputs marked
\* changed, and generation has ended without a task
C19_Witness ==
    /\ pc = "gen_ret"
    /\ fs0 # <<>>
    /\ Exists(merged) /\ Content(merged) = <<>>
    /\ flags.inputs_changed
    /\ \A d \in PromptDocIds : prompts[d] # 0 /\ ~Exists(promptDoc[d])
    /\ \A d \in AiDocIds : calls[d] = 0
    /\ ~Exists(indexFile)

\* C20: a run deletes no cache entry: every key the index held when the run
\* started is in the index when the run ends, also when the set of input
\* files has changed in between.
C20_EntriesNeverDeleted ==
    RunEnded => \A key \in DOMAIN Index0 : key \in DOMAIN PersistedIndex

\* ------------------------------------------------- claims about the no-op run
\* the persisted snapshot equals the current one, every prompt document and
\* every declared AI output exists, and every document with content has its
\* hash in the index under the current key
NothingToDo ==
    /\ Exists(snapshotFile)
    /\ Content(snapshotFile) = current_snapshot
    /\ \A d \in PromptDocIds : Exists(promptDoc[d])
    /\ \A d \in AiDocIds : AllOutputsExist(d)
    /\ \A d \in AiDocIds :
          HasSource(d) =>
              CachedHash(PersistedIndex, CurrentKey(d)) = hash_text(Content(promptDoc[d]))

\* C21: a run that starts with nothing to do returns at the no-op check: it
\* goes from the start of main() to its end in one step, before cleanup,
\* extraction, prompt documents, generation and save_snapshot, and no file
\* (outputs, index, snapshot) differs from what it was when the run started.
C21_UnchangedRunIsNoOp ==
    /\ [][(RunStarts /\ NothingToDo) => (pc' = "done" /\ AllFiles' = AllFiles)]_vars
    /\ []((RunEnded /\ Skipped) => AllFiles = fs0)

\* a second run that found nothing to do and has returned
C21_Witness ==
    /\ RunEnded
    /\ runs >= 1
    /\ NothingToDo
    /\ Skipped
    /\ AllFiles = fs0
    /\ \A d \in AiDocIds : HasSource(d)

\* ------------------------------------------------ claims about the merged text
\* the names of the current input documents, sorted
CurrentNames == Listed(PdfOrder \o WordOrder \o PhotoOrder, 1)
ReExtracted == RunEnded /\ ~Skipped /\ Extracted0

MergedMatchesInputs == Exists(merged) /\ SectionNames(merged) = CurrentNames
RemovalDetected == (RunEnded /\ edits = {"remove"}) => (flags.inputs_changed /\ ReExtracted)

GenUnitsAlive == {d \in AiDocIds : fut[d] \in {"queued", "calling", "sleeping"}}
OcrUnitsAlive == {i \in 1..Len(ocrFut) : ocrFut[i] \in {"queued", "running"}}

\* the cache document, the index in memory, the snapshot and the output files
SharedState == <<indexFile, index, snapshotFile, promptDoc, aiOut, tmpDocx, pageDir,
                 photoTxt, photoTexts, pdfTxt, wordTxt, merged>>

\* C23: no step taken while a generation unit or an OCR unit of the fan-out
\* has yet to reach its final outcome writes the cache document, the index in
\* memory, the snapshot document or an output file; these are written by the
\* steps of the orchestrating thread that follow the fan-out.
C23_WorkersNeverWriteSharedState ==
    [][(GenUnitsAlive # {} \/ OcrUnitsAlive # {}) => SharedState' = SharedState]_vars

\* one unit has returned and was collected while the other is still in its
\* call, and nothing has been written
C23_Witness ==
    /\ pc = "gen_pool"
    /\ \E d \in AiDocIds : fut[d] = "ok" /\ d \in collected
    /\ \E d \in AiDocIds : fut[d] = "calling"
    /\ Len(results) = 1
    /\ index = load_ai_output_index
    /\ \A d \in AiDocIds : \A k \in OutputKinds : ~Exists(aiOut[d][k])

Resolved == pc = "resolve_ret"
PositiveNumber(raw) == raw.kind = "num" /\ raw.n > 0

\* C25: whatever the environment holds (unset, blank, not a number, zero,
\* negative, positive), the generation pool and the OCR pool get at least one
\* worker and the retry count is at least 0; a positive number is taken as it
\* is, and generation falls back to 2 workers and to 2 retries.
C25_SettingsInRange ==
    Resolved =>
        /\ workers >= 1
        /\ ocrWorkers >= 1
        /\ retries >= 0
        /\ workers = IF PositiveNumber(rawEnv.workers) THEN rawEnv.workers.n ELSE 2
        /\ rawEnv.retries.kind # "num" => retries = 2
        /\ PositiveNumber(rawEnv.retries) => retries = rawEnv.retries.n
        /\ PositiveNumber(rawEnv.ocr_workers) => ocrWorkers = rawEnv.ocr_workers.n

\* zero workers, a negative retry count and a text for the OCR pool
C25_Witness ==
    /\ Resolved
    /\ rawEnv.workers = RawValue("num", 0)
    /\ rawEnv.retries = RawValue("num", -1)
    /\ rawEnv.ocr_workers = RawValue("text", 0)
    /\ rawEnv.cpu_count = 1
    /\ workers = 2
    /\ retries = 0
    /\ ocrWorkers = 2

\* ------------------------------------------- claims about the run after a failure
\* a run with nothing changed since a run in which a generation unit failed
AfterFailedRun == RunEnded /\ runs >= 1 /\ edits = {} /\ lastFailed # {}

\* C26: a generation unit that failed in the previous run has no index entry
\* for it, so the next run over unchanged inputs, prompts and model
\* configuration is not skipped, calls the service for that unit again, and
\* schedules exactly the documents that were not up to date when it started.
C26_FailedUnitTriedAgain ==
    AfterFailedRun =>
        /\ ~Skipped
        /\ \A d \in lastFailed : d \in TaskDocs /\ calls[d] >= 1
        /\ TaskDocs = {d \in AiDocIds : ~UpToDate0(d)}

\* the run after a failure that called the service for the failed unit only
C26_Witness ==
    /\ AfterFailedRun
    /\ TaskDocs = lastFailed
    /\ \E d \in AiDocIds : d \notin TaskDocs /\ calls[d] = 0
    /\ \A d \in lastFailed : calls[d] = 1 /\ fut[d] = "ok"

\* ------------------------------------------------- claims about call_doubao
Succeeded(d) == fut[d] = "ok"

\* C27: a unit whose call first returns on its k-th invocation has made
\* exactly k invocations, 1 <= k <= retries + 1, and slept k - 1 times; it is
\* not invoked again afterwards, and the result collected for it is the
\* value of that invocation.
C27_SuccessOnKthInvocation ==
    /\ [](\A d \in AiDocIds :
            Succeeded(d) =>
                /\ calls[d] >= 1 /\ calls[d] <= retries + 1
                /\ Len(sleeps[d]) = calls[d] - 1
                /\ attempt[d] = calls[d] - 1
                /\ d \in collected =>
                      \E i \in 1..Len(results) :
                          /\ results[i].doc = d
                          /\ results[i].response = chat_completion(TaskOf(d).content))
    /\ [][\A d \in AiDocIds :
            Succeeded(d) => (fut'[d] = "ok" /\ calls'[d] = calls[d]
                             /\ sleeps'[d] = sleeps[d])]_vars

\* a unit that succeeded on the last invocation its budget allows
C27_Witness ==
    /\ retries = MaxRetries
    /\ \E d \in AiDocIds :
          /\ Succeeded(d)
          /\ calls[d] = retries + 1
          /\ Len(sleeps[d]) = retries
          /\ d \in collected
          /\ reported[d] = 0

\* ------------------------------------------------ claims about termination
RECURSIVE SumCalls(_)
SumCalls(docs) ==
    IF docs = {} THEN 0
    ELSE LET d == CHOOSE x \in docs : TRUE IN calls[d] + SumCalls(docs \ {d})

Final(d) == fut[d] \in {"ok", "err"}

\* C28: if every call of the service returns or raises, generate_ai_documents
\* returns; it makes at most N * (R + 1) calls for N units and R retries, and
\* every unit has its final outcome when the writing of the outputs starts.
C28_Termination ==
    /\ (pc = "gen") ~> (pc = "gen_ret")
    /\ [](SumCalls(AiDocIds) <= Len(tasks) * (retries + 1))
    /\ [](pc = "gen_write" => \A d \in TaskDocs : Final(d))

\* both units have spent their whole budget and the function has returned
C28_Witness ==
    /\ pc = "gen_ret"
    /\ Len(tasks) = NumAiDocs
    /\ retries = MaxRetries
    /\ SumCalls(AiDocIds) = NumAiDocs * (MaxRetries + 1)

\* ------------------------------------------- claims about prompt documents
\* prompt document d holds the current prompt value and the current merged text
PromptDocCurrent(d) ==
    /\ Exists(merged)
    /\ promptDoc[d] = File(<<PromptText(d), Content(merged)>>)

\* C29: after every run that was not skipped, each prompt document on disk is
\* the current prompt value followed by the current merged text, also when
\* the prompt value was changed or removed since the previous run.
C29_PromptDocsNeverStale ==
    (RunEnded /\ ~Skipped) =>
        \A d \in PromptDocIds : Exists(promptDoc[d]) => PromptDocCurrent(d)

\* ------------------------------------------- claims about completion order
\* unit i is collected by this step
Collects(i) == i \notin ocrCollected /\ i \in ocrCollected'

\* the texts of the units of the page fan-out, by page number
PageUnitTexts == [i \in 1..Len(cur_pdf.pages) |-> UnitText(i, cur_pdf.pages[i].image)]

\* C30: the order in which the OCR units finish has no part in the output.
\* Whatever has been collected before it, the text of unit i goes to slot i
\* and to no other; the page texts read back from the folder of a scanned
\* PDF are those of its pages in ascending page number, and the text of the
\* i-th image is written under the title of the i-th image and to the text
\* file of that image.
C30_OrderIndependentOfCompletion ==
    /\ [][\A i \in 1..Len(ocrFut) :
            Collects(i) =>
                /\ ocrResults'[i] = UnitText(i, UnitImage(i))
                /\ \A j \in 1..Len(ocrFut) : j # i => ocrResults'[j] = ocrResults[j]]_vars
    /\ []((pc = "pages_ret" /\ FanOutDone) =>
            pageTexts = NonEmptyTexts(PageUnitTexts, 1))
    /\ []((pc = "photo_ret" /\ FanOutDone) =>
            \A i \in 1..Len(photo_files) :
                /\ Content(photoTxt)[i][1] = photo_files[i].name
                /\ photoTexts[photo_files[i].name] =
                      File(UnitText(i, photo_files[i].text)))

\* three pages; the second and the third have been collected while the
\* first is still being recognized
C30_Witness ==
    /\ pc = "pdf_pool"
    /\ Len(ocrFut) = 3
    /\ ocrFut[1] = "running"
    /\ ocrCollected = {2, 3}
    /\ ocrResults = <<0, cur_pdf.pages[2].image, cur_pdf.pages[3].image>>

\* ------------------------------------------------ claims about the PDF path
\* extract_text_from_pdf is running or has returned
InPdfCall == pc \in {"pdf", "pdf_pool", "pdf_write", "pdf_ret"}
TextInFirstThree ==
    \E i \in 1..Len(cur_pdf.pages) : i <= 3 /\ cur_pdf.pages[i].text # 0
OnePageFilePerPage ==
    /\ Exists(pageDir[cur_pdf.name])
    /\ DOMAIN Content(pageDir[cur_pdf.name]) = 1..Len(cur_pdf.pages)

\* C31 as stated: OCR is used for a PDF exactly when none of its first three
\* pages has extractable text; a PDF with text on one of them never starts
\* an OCR unit, and either way one page file is written per page.
C31_OcrIffNoText ==
    /\ (InPdfCall /\ TextInFirstThree) => ocrCalls = 0
    /\ pc = "pdf_ret" =>
          /\ ocrCalls > 0 <=> ~TextInFirstThree
          /\ OnePageFilePerPage

\* C31 as the code has it: OCR is used exactly when none of the first three
\* pages has extractable text and the OCR credentials are set, and then with
\* one unit per page, text layer or not; without credentials no unit is
\* started.  In every branch one page file is written per page.
C31_OcrIffNoTextAndCredentials ==
    /\ (InPdfCall /\ (TextInFirstThree \/ ~ocrConfig)) => ocrCalls = 0
    /\ pc = "pdf_ret" =>
          /\ ocrCalls > 0 <=> (~TextInFirstThree /\ ocrConfig)
          /\ ocrCalls > 0 => ocrCalls = Len(cur_pdf.pages)
          /\ OnePageFilePerPage

\* four pages, the first three scanned and the fourth with a text layer:
\* all four went through OCR
C31_Witness ==
    /\ pc = "pdf_ret"
    /\ Len(cur_pdf.pages) = 4
    /\ ~TextInFirstThree
    /\ cur_pdf.pages[4].text # 0
    /\ ocrCalls = 4
    /\ OnePageFilePerPage

\* ------------------------------------------- claims about the frame of calls
\* the header names sign_request assigns in this call
NamesSet ==
    {"X-Date", "X-Content-Sha256", "Authorization"}
        \cup (IF request.session_token # <<>> THEN {"X-Security-Token"} ELSE {})

\* C32: sign_request changes the caller's header map only by setting X-Date,
\* X-Content-Sha256, Authorization and, exactly when a session token is given,
\* X-Security-Token.  Every other header, Host with its port included, keeps
\* its name and its value, and the query map is left as it was.
C32_SignRequestFrame ==
    pc = "sign_ret" =>
        /\ Keys(signed.headers) = Keys(request.headers) \cup NamesSet
        /\ Len(signed.headers) = Cardinality(Keys(signed.headers))
        /\ \A key \in Keys(request.headers) \ NamesSet :
              DictGet(signed.headers, key) = DictGet(request.headers, key)
        /\ DictGet(signed.headers, "X-Date") = FormatDate(request.clock)
        /\ DictGet(signed.headers, "X-Content-Sha256") = hash_text(RequestBody)
        /\ DictGet(signed.headers, "Authorization") = signed.authorization
        /\ "X-Security-Token" \in Keys(signed.headers) <=> request.session_token # <<>>
        /\ request.session_token # <<>> =>
              DictGet(signed.headers, "X-Security-Token") = request.session_token
        /\ signed.query = request.query

\* a call with a session token whose Host header names the default port:
\* the port is signed away but stays in the caller's header
C32_Witness ==
    /\ pc = "sign_ret"
    /\ request.session_token # <<>>
    /\ "Host" \in Keys(request.headers)
    /\ "Accept" \in Keys(request.headers)
    /\ DictGet(request.headers, "Host") = <<"h", "443">>
    /\ DictGet(signed.headers, "Host") = <<"h", "443">>
    /\ \E i \in 1..Len(signed.canonical_request[4]) :
          signed.canonical_request[4][i] = <<"host", <<"h">>>>
    /\ "X-Security-Token" \in Keys(signed.headers)

\* --------------------------------------------------- claims about the names
\* every file of the loop has its name
AllNamed == pc = "names" /\ naming.i > Len(naming.stems)

\* C33: every call of unique_name returns, after at most one test per name in
\* used_names and one more, and over the calls of one loop the names returned
\* differ from each other, letter case set aside, and from every name the set
\* held at the start: each file gets one name and no two files the same.
C33_UniqueNames ==
    /\ (pc = "unique") ~> (pc = "names")
    /\ <>AllNamed
    /\ [](/\ naming.index <= Cardinality(naming.used_names) + 1
          /\ Len(naming.returned) = naming.i - 1
          /\ \A k, l \in 1..Len(naming.returned) :
                LowerName(naming.returned[k]) = LowerName(naming.returned[l]) => k = l
          /\ \A k \in 1..Len(naming.returned) :
                /\ naming.returned[k] \notin naming.initial
                /\ LowerName(naming.returned[k]) \notin naming.initial)

\* three PDFs a, A and a_1: the second collides with the first and becomes
\* A_1, the third collides with that and becomes a_1_1
C33_Witness ==
    /\ AllNamed
    /\ naming.stems = <<<<"a">>, <<"A">>, <<"a", "_", "1">>>>
    /\ naming.initial # {}
    /\ naming.returned = <<<<"a">>, <<"A", "_", "1">>, <<"a", "_", "1", "_", "1">>>>
====
